---- MODULE Spec2Model ----
(***************************************************************************)
(* Zone planner engine of the scavenger-hunt application: planZones and    *)
(* its helpers (greedy clustering, merging of small clusters, zone         *)
(* building, ordering and renumbering).                                    *)
(*                                                                         *)
(* Numbers.  Coordinates are integers counting units of 0.0000015 degree   *)
(* (one unit is 0.1667924 m of arc on the meridian), taken near latitude 0 *)
(* and longitude 0, so that cos(lat) differs from 1 by less than 4e-7 and  *)
(* the haversine distance equals the planar distance to within a few       *)
(* millimetres.  Distances are integers counting millimetres.  Input       *)
(* coordinates are multiples of 60 units, so the arithmetic mean of up to  *)
(* six of them is again an integer.  Array indices stored in the model     *)
(* (poiIndices, sortedIndices) are the program's 0-based indices.          *)
(***************************************************************************)
EXTENDS Integers, Sequences, FiniteSets, TLC

\* Largest number of input points of a call.
MaxN == 3

\* let bestDistance = Infinity (and the +-Infinity of the bounds loops).
Infinity == 2147483647

\* DEFAULT_CONFIG
DefaultMinPoisPerZone == 3
DefaultMaxPoisPerZone == 10
DefaultClusterRadiusMeters == 1000

-----------------------------------------------------------------------------
(* Arithmetic helpers *)

Abs(x) == IF x < 0 THEN -x ELSE x

RECURSIVE SqrtSearch(_, _, _)
\* Largest s in lo..hi with s*s <= q (lo*lo <= q is given).
SqrtSearch(q, lo, hi) ==
  IF lo >= hi THEN lo
  ELSE LET mid == (lo + hi + 1) \div 2
       IN IF mid * mid <= q THEN SqrtSearch(q, mid, hi)
          ELSE SqrtSearch(q, lo, mid - 1)

\* Math.sqrt on a non-negative integer, rounded down.
Isqrt(q) == SqrtSearch(q, 0, 46340)

RECURSIVE SumSeq(_)
\* reduce((a, b) => a + b, 0)
SumSeq(s) == IF s = <<>> THEN 0 ELSE Head(s) + SumSeq(Tail(s))

\* EARTH_RADIUS_METERS * (PI / 180) * 0.0000015 = 0.1667924 m per unit:
\* the distance in millimetres of `s` whole units plus the fraction
\* r / (2s + 1) of a unit (r is the remainder of the square root).
ArcMillimetres(s, r) ==
  166 * s + (7924 * s) \div 10000 + (r * 16679) \div (100 * (2 * s + 1))

\* haversineDistance: great-circle distance of two coordinates, in mm.
haversineDistance(lat1, lng1, lat2, lng2) ==
  LET dLat == lat2 - lat1
      dLng == lng2 - lng1
      a == dLat * dLat + dLng * dLng
      s == Isqrt(a)
  IN ArcMillimetres(s, a - s * s)

\* Metres of the configuration as millimetres.
Metres(m) == m * 1000

-----------------------------------------------------------------------------
(* Array.prototype.sort: V8 sorts an array shorter than 64 elements by     *)
(* finding the run the array starts with (reversing it when strictly       *)
(* descending) and inserting the remaining elements by binary insertion.   *)
(* cmp is the comparison function as a function of pairs of elements.      *)

Reverse(s) == [k \in 1..Len(s) |-> s[Len(s) + 1 - k]]

\* CountAndMakeRun: the length of the run the array starts with.
RunGood(a, cmp, desc, k) ==
  IF desc THEN cmp[<<a[k], a[k - 1]>>] < 0 ELSE cmp[<<a[k], a[k - 1]>>] >= 0

RunLength(a, cmp) ==
  LET n == Len(a)
      desc == cmp[<<a[2], a[1]>>] < 0
  IN CHOOSE r \in 2..n :
       /\ \A k \in 3..r : RunGood(a, cmp, desc, k)
       /\ (r = n \/ ~RunGood(a, cmp, desc, r + 1))

RECURSIVE InsertPos(_, _, _, _, _)
\* The binary search of BinaryInsertionSort in a[left .. right-1].
InsertPos(a, cmp, pivot, left, right) ==
  IF left >= right THEN left
  ELSE LET mid == left + (right - left) \div 2
       IN IF cmp[<<pivot, a[mid]>>] < 0
          THEN InsertPos(a, cmp, pivot, left, mid)
          ELSE InsertPos(a, cmp, pivot, mid + 1, right)

RECURSIVE BinaryInsertionSort(_, _, _)
\* Inserts a[start], a[start+1], ... into the sorted prefix before them.
BinaryInsertionSort(a, cmp, start) ==
  IF start > Len(a) THEN a
  ELSE LET pivot == a[start]
           pos == InsertPos(a, cmp, pivot, 1, start)
           b == [k \in 1..Len(a) |->
                   IF k < pos \/ k > start THEN a[k]
                   ELSE IF k = pos THEN pivot ELSE a[k - 1]]
       IN BinaryInsertionSort(b, cmp, start + 1)

ArraySort(a, cmp) ==
  IF Len(a) < 2 THEN a
  ELSE LET r == RunLength(a, cmp)
           desc == cmp[<<a[2], a[1]>>] < 0
           made == IF desc
                   THEN Reverse(SubSeq(a, 1, r)) \o SubSeq(a, r + 1, Len(a))
                   ELSE a
       IN BinaryInsertionSort(made, cmp, r + 1)

Range(s) == {s[k] : k \in 1..Len(s)}

-----------------------------------------------------------------------------
(* Inputs *)

\* The coordinates a point of the input is drawn from: the origin, 10 m
\* north of it, 10 m east of it, 200 m east of it, about 900 m and 1800 m
\* north-north-east of it, 5000 m north of it, and 2400 m east of the fifth.
Positions ==
  { [lat |-> 0, lng |-> 0], [lat |-> 60, lng |-> 0], [lat |-> 0, lng |-> 60],
    [lat |-> 0, lng |-> 1200], [lat |-> 5400, lng |-> 600],
    [lat |-> 10740, lng |-> 1320], [lat |-> 30000, lng |-> 0],
    [lat |-> 5400, lng |-> 15000] }

\* The caller's ZoneConfig: every option may be absent (<<>>) or given.
MinOptions == {<<>>, <<1>>}
MaxOptions == {<<>>, <<1>>, <<2>>}
RadiusOptions == {<<>>, <<100>>}

ConfigOf(mn, mx, r) ==
  LET all == [minPoisPerZone |-> mn, maxPoisPerZone |-> mx,
              clusterRadiusMeters |-> r]
  IN [f \in {g \in DOMAIN all : all[g] # <<>>} |-> all[f][1]]

\* Every combination of the options above, and one configuration of radius 0
\* under which only points at the very place of the seed join its cluster.
Configs ==
  {ConfigOf(mn, mx, r) : mn \in MinOptions, mx \in MaxOptions, r \in RadiusOptions}
  \cup {ConfigOf(<<1>>, <<>>, <<0>>)}

PointLists == UNION {[1..n -> Positions] : n \in 0..MaxN}

\* DEFAULT_CONFIG (mapSize only feeds the zoom calculator)
DEFAULT_CONFIG ==
  [minPoisPerZone |-> DefaultMinPoisPerZone,
   maxPoisPerZone |-> DefaultMaxPoisPerZone,
   clusterRadiusMeters |-> DefaultClusterRadiusMeters]

\* { ...DEFAULT_CONFIG, ...config }
MergedConfig(cfg) == cfg @@ DEFAULT_CONFIG

-----------------------------------------------------------------------------
(* clusterPOIs *)

\* pois[i] for a 0-based index i
Poi(ps, i) == ps[i + 1]

\* Mutant of LatCompare: the indices sorted from south to north.
LatCompareSouthFirst(ps, a, b) == ps[a + 1].lat - ps[b + 1].lat

\* (a, b) => pois[b].lat - pois[a].lat
LatCompare(ps, a, b) == Poi(ps, b).lat - Poi(ps, a).lat

\* Mutant of SortedIndices: sorted from south to north, then reversed, so
\* that of two points of one latitude the later index comes first.
SortedIndicesByReversal(ps) ==
  LET idx == [k \in 1..Len(ps) |-> k - 1]
      cmp == [p \in Range(idx) \X Range(idx) |->
                Poi(ps, p[1]).lat - Poi(ps, p[2]).lat]
  IN Reverse(ArraySort(idx, cmp))

\* pois.map((_, i) => i).sort(...): the indices from north to south
SortedIndices(ps) ==
  LET idx == [k \in 1..Len(ps) |-> k - 1]
      cmp == [p \in Range(idx) \X Range(idx) |-> LatCompare(ps, p[1], p[2])]
  IN ArraySort(idx, cmp)

\* Mutant of WithinRadius: a distance equal to the radius is turned away.
WithinRadiusStrictly(distance, cfg) == distance < Metres(cfg.clusterRadiusMeters)

\* Mutant of WithinRadius: the rebalancer's limit of three radii is used.
WithinThreeRadii(distance, cfg) == distance <= Metres(cfg.clusterRadiusMeters) * 3

\* distance <= clusterRadiusMeters
WithinRadius(distance, cfg) == distance <= Metres(cfg.clusterRadiusMeters)

\* Mutant of Candidates: the scan does not skip the assigned indices.
CandidatesAmongAll(ps, cfg, sorted, asg, seedIndex) ==
  LET seedPoi == Poi(ps, seedIndex)
      Dist(c) == haversineDistance(seedPoi.lat, seedPoi.lng,
                                   Poi(ps, c).lat, Poi(ps, c).lng)
      Near(c) == WithinRadius(Dist(c), cfg)
      near == SelectSeq(sorted, Near)
  IN [k \in 1..Len(near) |-> [index |-> near[k], distance |-> Dist(near[k])]]

\* The candidates of a seed: the unassigned indices within the radius, in
\* the order of sortedIndices, each with its distance from the seed.
Candidates(ps, cfg, sorted, asg, seedIndex) ==
  LET seedPoi == Poi(ps, seedIndex)
      Dist(c) == haversineDistance(seedPoi.lat, seedPoi.lng,
                                   Poi(ps, c).lat, Poi(ps, c).lng)
      Near(c) == c \notin asg /\ WithinRadius(Dist(c), cfg)
      near == SelectSeq(sorted, Near)
  IN [k \in 1..Len(near) |-> [index |-> near[k], distance |-> Dist(near[k])]]

\* (a, b) => a.distance - b.distance
DistanceCompare(a, b) == a.distance - b.distance

\* Mutant of SortCandidates: the candidates stay in the order of the scan.
CandidatesUnsorted(cands) == cands

\* candidates.sort(...)
SortCandidates(cands) ==
  LET cmp == [p \in Range(cands) \X Range(cands) |-> DistanceCompare(p[1], p[2])]
  IN ArraySort(cands, cmp)

\* Mutant of ClusterFull: > for >=, one member too many.
ClusterFullOffByOne(cluster, cfg) == Len(cluster) > cfg.maxPoisPerZone

\* if (cluster.length >= maxPoisPerZone) break
ClusterFull(cluster, cfg) == Len(cluster) >= cfg.maxPoisPerZone

RECURSIVE AddCandidates(_, _, _)
\* for (const candidate of candidates) { ...break; cluster.push(...) }
AddCandidates(cluster, cands, cfg) ==
  IF cands = <<>> \/ ClusterFull(cluster, cfg) THEN cluster
  ELSE AddCandidates(Append(cluster, Head(cands).index), Tail(cands), cfg)

\* The cluster opened by a seed.
SeedCluster(ps, cfg, sorted, asg, seedIndex) ==
  AddCandidates(<<seedIndex>>,
                SortCandidates(Candidates(ps, cfg, sorted, asg \cup {seedIndex},
                                          seedIndex)),
                cfg)

-----------------------------------------------------------------------------
(* mergeSmallClusters *)

\* const maxMergeDistance = clusterRadiusMeters * 3
MaxMergeDistance(cfg) == Metres(cfg.clusterRadiusMeters) * 3

\* getClusterCenter: the arithmetic means of the members' coordinates
getClusterCenter(ps, cluster) ==
  LET lats == [k \in 1..Len(cluster) |-> Poi(ps, cluster[k]).lat]
      lngs == [k \in 1..Len(cluster) |-> Poi(ps, cluster[k]).lng]
  IN [lat |-> SumSeq(lats) \div Len(lats), lng |-> SumSeq(lngs) \div Len(lngs)]

\* The centroid-to-centroid distance of two clusters.
CenterDistance(ps, c1, c2) ==
  LET centerI == getClusterCenter(ps, c1)
      centerJ == getClusterCenter(ps, c2)
  IN haversineDistance(centerI.lat, centerI.lng, centerJ.lat, centerJ.lng)

\* Mutant of TooBig: the size of the partner alone is checked.
TooBigPartnerOnly(ci, cj, cfg) == Len(cj) > cfg.maxPoisPerZone

\* if (combinedSize > maxPoisPerZone) continue
TooBig(ci, cj, cfg) == Len(ci) + Len(cj) > cfg.maxPoisPerZone

\* Mutant of Improves: the first partner within the limit is kept.
ImprovesOnlyOnce(distance, bestDistance, cfg) ==
  bestDistance = Infinity /\ distance <= MaxMergeDistance(cfg)

\* Mutant of Improves: the nearest partner at any distance.
ImprovesAtAnyDistance(distance, bestDistance, cfg) == distance < bestDistance

\* distance < bestDistance && distance <= maxMergeDistance
Improves(distance, bestDistance, cfg) ==
  distance < bestDistance /\ distance <= MaxMergeDistance(cfg)

RECURSIVE ScanPartners(_, _, _, _, _, _, _)
\* The inner loop over j (1-based positions here): the best partner found
\* from position j on, given the best so far; 0 stands for the program's -1.
ScanPartners(ps, cfg, wc, i, j, bestMergeIndex, bestDistance) ==
  IF j > Len(wc) THEN bestMergeIndex
  ELSE IF i = j \/ TooBig(wc[i], wc[j], cfg)
       THEN ScanPartners(ps, cfg, wc, i, j + 1, bestMergeIndex, bestDistance)
       ELSE LET distance == CenterDistance(ps, wc[i], wc[j])
            IN IF Improves(distance, bestDistance, cfg)
               THEN ScanPartners(ps, cfg, wc, i, j + 1, j, distance)
               ELSE ScanPartners(ps, cfg, wc, i, j + 1, bestMergeIndex,
                                 bestDistance)

BestMergeIndex(ps, cfg, wc, i) == ScanPartners(ps, cfg, wc, i, 1, 0, Infinity)

\* Mutant of BigEnough: a cluster of exactly minPoisPerZone is not skipped.
BigEnoughStrictly(cluster, cfg) == Len(cluster) > cfg.minPoisPerZone

\* if (workingClusters[i].length >= minPoisPerZone) continue
BigEnough(cluster, cfg) == Len(cluster) >= cfg.minPoisPerZone

\* The positions i at which one pass of the for loop finds a merge.
Mergeable(ps, cfg, wc) ==
  {i \in 1..Len(wc) : ~BigEnough(wc[i], cfg) /\ BestMergeIndex(ps, cfg, wc, i) # 0}

\* The i the pass stops at: the first one that finds a partner.
FirstMergeable(ps, cfg, wc) ==
  CHOOSE i \in Mergeable(ps, cfg, wc) : \A k \in Mergeable(ps, cfg, wc) : i <= k

\* Mutant of MergeInto: the absorbed cluster's members are put first.
MergeIntoPartnerFirst(wc, i, best) ==
  LET joined == [wc EXCEPT ![i] = wc[best] \o wc[i]]
  IN SubSeq(joined, 1, best - 1) \o SubSeq(joined, best + 1, Len(joined))

\* Mutant of MergeInto: the absorbed cluster is not spliced out of the list.
MergeIntoWithoutSplice(wc, i, best) == [wc EXCEPT ![i] = wc[i] \o wc[best]]

\* workingClusters[i] = [...workingClusters[i], ...workingClusters[best]];
\* workingClusters.splice(best, 1)
MergeInto(wc, i, best) ==
  LET joined == [wc EXCEPT ![i] = wc[i] \o wc[best]]
  IN SubSeq(joined, 1, best - 1) \o SubSeq(joined, best + 1, Len(joined))

RECURSIVE MergeLoop(_, _, _)
\* while (changed): pass after pass until a pass merges nothing
MergeLoop(ps, cfg, wc) ==
  IF Mergeable(ps, cfg, wc) = {} THEN wc
  ELSE LET i == FirstMergeable(ps, cfg, wc)
       IN MergeLoop(ps, cfg, MergeInto(wc, i, BestMergeIndex(ps, cfg, wc, i)))

\* mergeSmallClusters as a whole
mergeSmallClusters(cs, ps, cfg) ==
  IF Len(cs) <= 1 THEN cs ELSE MergeLoop(ps, cfg, cs)

-----------------------------------------------------------------------------
(* planZones: zones, their order and their ids *)

\* calculateBounds
calculateBounds(coordinates) ==
  LET lats == {coordinates[k].lat : k \in 1..Len(coordinates)}
      lngs == {coordinates[k].lng : k \in 1..Len(coordinates)}
      Most(S, start) == IF S = {} THEN start
                        ELSE CHOOSE x \in S : \A y \in S : y <= x
      Least(S, start) == IF S = {} THEN start
                         ELSE CHOOSE x \in S : \A y \in S : x <= y
  IN [north |-> Most(lats, -Infinity), south |-> Least(lats, Infinity),
      east |-> Most(lngs, -Infinity), west |-> Least(lngs, Infinity)]

\* `zone-${index}`
ZoneId(index) == "zone-" \o ToString(index)

\* Mutant of MakeZone: the bounds are taken over all the points.
MakeZoneBoundedByAll(ps, poiIndices, index) ==
  [id |-> ZoneId(index), poiIndices |-> poiIndices, bounds |-> calculateBounds(ps)]

\* clusters.map((poiIndices, index) => ...): the zone of a cluster
\* (center and zoom are computed by the map planner and not modelled)
MakeZone(ps, poiIndices, index) ==
  LET coordinates == [k \in 1..Len(poiIndices) |-> Poi(ps, poiIndices[k])]
  IN [id |-> ZoneId(index), poiIndices |-> poiIndices,
      bounds |-> calculateBounds(coordinates)]

\* Math.abs(aNorth - bNorth) > 0.01: 0.01 degree is 20000 / 3 units
DifferentRow(aNorth, bNorth) == 3 * Abs(aNorth - bNorth) > 20000

\* Mutant of ZoneCompare: by north alone, without the rows.
ZoneCompareNorthOnly(a, b) == b.bounds.north - a.bounds.north

\* The comparison function of zones.sort
ZoneCompare(a, b) ==
  IF DifferentRow(a.bounds.north, b.bounds.north)
  THEN b.bounds.north - a.bounds.north
  ELSE a.bounds.west - b.bounds.west

\* zones.sort(...)
SortZones(zs) ==
  LET cmp == [p \in Range(zs) \X Range(zs) |-> ZoneCompare(p[1], p[2])]
  IN ArraySort(zs, cmp)

\* Mutant of Renumber: the ids given before the sort are kept.
KeepIds(zs) == zs

\* zones.forEach((zone, index) => { zone.id = `zone-${index}` })
Renumber(zs) == [k \in 1..Len(zs) |-> [zs[k] EXCEPT !.id = ZoneId(k - 1)]]

\* The zones planZones returns for the final clusters.
ZonesOf(ps, cs) ==
  Renumber(SortZones([k \in 1..Len(cs) |-> MakeZone(ps, cs[k], k - 1)]))

\* Mutant of calculateOverallBounds: the bounds of the first zone alone.
BoundsOfFirstZone(zs) == IF Len(zs) = 0 THEN "null" ELSE zs[1].bounds

\* Mutant of calculateOverallBounds: south is taken with Math.max.
OverallBoundsSouthByMax(zs) ==
  IF Len(zs) = 0 THEN "null"
  ELSE LET Most(S) == CHOOSE x \in S : \A y \in S : y <= x
           Least(S) == CHOOSE x \in S : \A y \in S : x <= y
       IN [north |-> Most({zs[k].bounds.north : k \in 1..Len(zs)}),
           south |-> Most({zs[k].bounds.south : k \in 1..Len(zs)}),
           east |-> Most({zs[k].bounds.east : k \in 1..Len(zs)}),
           west |-> Least({zs[k].bounds.west : k \in 1..Len(zs)})]

\* calculateOverallBounds
calculateOverallBounds(zs) ==
  IF Len(zs) = 0 THEN "null"
  ELSE LET Most(S) == CHOOSE x \in S : \A y \in S : y <= x
           Least(S) == CHOOSE x \in S : \A y \in S : x <= y
       IN [north |-> Most({zs[k].bounds.north : k \in 1..Len(zs)}),
           south |-> Least({zs[k].bounds.south : k \in 1..Len(zs)}),
           east |-> Most({zs[k].bounds.east : k \in 1..Len(zs)}),
           west |-> Least({zs[k].bounds.west : k \in 1..Len(zs)})]

\* Mutant of getZonePOIs: the zone's points in the order of the array.
getZonePOIsInArrayOrder(ps, zone) ==
  LET kept == SelectSeq([k \in 1..Len(ps) |-> [index |-> k - 1, poi |-> ps[k]]],
                        LAMBDA e : \E m \in 1..Len(zone.poiIndices) :
                                      zone.poiIndices[m] = e.index)
  IN [k \in 1..Len(kept) |-> kept[k].poi]

\* getZonePOIs
getZonePOIs(ps, zone) ==
  [k \in 1..Len(zone.poiIndices) |-> Poi(ps, zone.poiIndices[k])]

-----------------------------------------------------------------------------
(* The calls of planZones, one loop iteration at a time *)

VARIABLES
  pois,             \* the caller's array of points
  config,           \* the caller's ZoneConfig
  call,             \* 1 during the first call on (pois, config), 2 during the second
  firstZones,       \* what the first call returned
  pc,               \* "idle", "call", "cluster", "merge", "build", "done", "used"
  mergedConfig,     \* planZones: mergedConfig
  sortedIndices,    \* clusterPOIs: sortedIndices
  seedPos,          \* clusterPOIs: position of the outer for loop in sortedIndices
  assigned,         \* clusterPOIs: assigned
  clusters,         \* clusterPOIs: clusters
  workingClusters,  \* mergeSmallClusters: workingClusters
  zones,            \* the array planZones returned
  greedy,           \* history: the clusters handed to mergeSmallClusters
  merges,           \* history: the merges of this call so far
  lastMerge,        \* history: <<>> or <<the last merge of this call>>
  zonePois,         \* the caller's getZonePOIs(pois, zone) of every zone
  overallBounds,    \* the caller's calculateOverallBounds(zones), in a 1-tuple
  again,            \* <<>> or <<mergeSmallClusters applied to its own result>>
  query,            \* searchLocations: query, a sequence of UTF-16 code units
  apiKey,           \* process.env.NEXT_PUBLIC_MAPTILER_API_KEY
  options,          \* searchLocations: options
  gpc,              \* "idle", "start", "fetch", "json" or "returned"
  requests,         \* the URLs handed to fetch so far
  response,         \* <<>> or <<the Response fetch resolved with>>
  settled,          \* "pending", "resolved" or "rejected": the returned promise
  results,          \* the value the promise resolved with
  clock,            \* Math.floor(Date.now() / 1000)
  cachedAccessToken,\* <<>> for null, or <<[token, expiresAt]>>
  credentials,      \* whether the three APPLE_MAPS_ variables are set
  tokenCalls,       \* the calls of getAccessToken, one per caller
  exchanges,        \* history: the token exchanges started so far
  fetchedAt,         \* history: when the token of each exchange arrived
  mapkitLoadPromise,\* <<>> for null, or <<the load whose promise is cached>>
  loads,            \* the state of each load: of its executor and of its promise
  script,           \* the apple-mapkit script element of the document
  polls,            \* turns of the loop that waits for window.mapkit
  tokenFetches,     \* history: fetches of /api/mapkit-token so far
  mapkitInits,      \* history: calls of mapkit.init so far
  mounts,            \* each EditorMap: where its initMap is, and the load it awaits
  dateNow,          \* Date.now(), in ms
  timerProps,       \* GameTimer: startedAt, timeLimitMinutes, and whether onExpire is given
  interval,         \* <<>> for no interval, or <<the time its next tick is due>>
  timeLeft,         \* GameTimer: the state timeLeft
  expireCalls,      \* history: calls of onExpire so far
  updates,           \* history: runs of updateTimer so far
  poisProp,         \* EditorMap: the pois prop
  mapReady,         \* EditorMap: the state mapReady
  raceAnnotations,  \* raceAnnotationsRef.current: a Map from POI id to annotation
  mapAnnotations,   \* the race annotations added to the map, in the order added
  synced,            \* whether the race-POI effect has run since pois or mapReady changed
  pressNow,         \* the time, in ms
  listening,        \* whether handleSelect and handleDeselect are registered on the map
  onLongPressPOI,   \* whether the prop onLongPressPOI is given
  timers,           \* the timeouts set and neither fired nor cleared; own: set by the mounted component
  longPressTimerRef,\* longPressTimerRef.current: <<>> for null, or <<a handle>>
  longPressPOIRef,  \* longPressPOIRef.current: <<>> for null, or <<a POI id>>
  selectedAt,       \* history: since the last deselect, <<>> or <<the race marker last selected, and when>>
  lastCall          \* history: <<>>, or <<the last call of onLongPressPOI>>

plannerVars == <<pois, config, call, firstZones, pc, mergedConfig,
                 sortedIndices, seedPos, assigned, clusters, workingClusters,
                 zones, greedy, merges, lastMerge>>
callerVars == <<zonePois, overallBounds, again>>
geoVars == <<query, apiKey, options, gpc, requests, response, settled, results>>
tokenVars == <<clock, cachedAccessToken, credentials, tokenCalls, exchanges,
               fetchedAt>>
kitVars == <<mapkitLoadPromise, loads, script, polls, tokenFetches, mapkitInits, mounts>>
timerVars == <<dateNow, timerProps, interval, timeLeft, expireCalls, updates>>
markerVars == <<poisProp, mapReady, raceAnnotations, mapAnnotations, synced>>
pressVars == <<pressNow, listening, onLongPressPOI, timers, longPressTimerRef, longPressPOIRef, selectedAt, lastCall>>
uiVars == <<tokenVars, kitVars, timerVars, markerVars, pressVars>>
vars == <<plannerVars, callerVars, geoVars, uiVars>>

exceptToken == <<plannerVars, callerVars, geoVars,
  kitVars,
  timerVars,
  markerVars,
  pressVars>>
exceptKit == <<plannerVars, callerVars, geoVars,
  tokenVars,
  timerVars,
  markerVars,
  pressVars>>
exceptTimer == <<plannerVars, callerVars, geoVars,
  tokenVars, kitVars,
  markerVars,
  pressVars>>
exceptMarker == <<plannerVars, callerVars, geoVars,
  tokenVars, kitVars, timerVars,
  pressVars>>
exceptPress == <<plannerVars, callerVars, geoVars,
  tokenVars, kitVars, timerVars, markerVars>>

input == <<pois, config, call, firstZones>>
clusterVars == <<sortedIndices, seedPos, assigned, clusters>>
history == <<greedy, merges, lastMerge>>

\* Mutant of IsEmptyInput: a single point is taken for no input.
IsEmptyOrSingle(ps) == Len(ps) <= 1

\* if (pois.length === 0)
IsEmptyInput(ps) == Len(ps) = 0

\* Mutant of NewAssigned: the set lives across the calls.
SharedAssigned == assigned

\* const assigned = new Set<number>()
NewAssigned == {}

\* Mutant of NewClusters: the list lives across the calls.
SharedClusters == clusters

\* const clusters: number[][] = []
NewClusters == <<>>

\* No search is under way.
GeoIdle ==
  /\ query = <<>>
  /\ apiKey = <<>>
  /\ options = <<>>
  /\ gpc = "idle"
  /\ requests = <<>>
  /\ response = <<>>
  /\ settled = "pending"
  /\ results = <<>>

\* No call of getAccessToken has been made.
TokenIdle ==
  /\ clock = 0
  /\ cachedAccessToken = <<>>
  /\ credentials = TRUE
  /\ tokenCalls = <<>>
  /\ exchanges = 0
  /\ fetchedAt = <<>>

\* No EditorMap has been mounted.
KitIdle ==
  /\ mapkitLoadPromise = <<>>
  /\ loads = <<>>
  /\ script = "absent"
  /\ polls = 0
  /\ tokenFetches = 0
  /\ mapkitInits = 0
  /\ mounts = <<>>

\* No GameTimer is rendered.
TimerIdle ==
  /\ dateNow = 0
  /\ timerProps = <<>>
  /\ interval = <<>>
  /\ timeLeft = 0
  /\ expireCalls = 0
  /\ updates = 0

\* No map shows race markers.
MarkerIdle ==
  /\ poisProp = <<>>
  /\ mapReady = FALSE
  /\ raceAnnotations = <<>>
  /\ mapAnnotations = <<>>
  /\ synced = TRUE

\* No map listens for selections.
PressIdle ==
  /\ pressNow = 0
  /\ listening = FALSE
  /\ onLongPressPOI = FALSE
  /\ timers = {}
  /\ longPressTimerRef = <<>>
  /\ longPressPOIRef = <<>>
  /\ selectedAt = <<>>
  /\ lastCall = <<>>

\* Nothing but the component under study runs.
UiIdle == TokenIdle /\ KitIdle /\ TimerIdle /\ MarkerIdle /\ PressIdle

Init ==
  /\ pois \in PointLists
  /\ config \in Configs
  /\ call = 1
  /\ firstZones = <<>>
  /\ pc = "call"
  /\ mergedConfig = DEFAULT_CONFIG
  /\ sortedIndices = <<>>
  /\ seedPos = 1
  /\ assigned = {}
  /\ clusters = <<>>
  /\ workingClusters = <<>>
  /\ zones = <<>>
  /\ greedy = <<>>
  /\ merges = 0
  /\ lastMerge = <<>>
  /\ zonePois = <<>>
  /\ overallBounds = <<>>
  /\ again = <<>>
  /\ GeoIdle
  /\ UiIdle

\* planZones on an empty array: return []
PlanZonesEmpty ==
  /\ pc = "call"
  /\ IsEmptyInput(pois)
  /\ zones' = <<>>
  /\ pc' = "done"
  /\ UNCHANGED <<input, mergedConfig, clusterVars, workingClusters, history>>
  /\ UNCHANGED <<callerVars, geoVars, uiVars>>

\* planZones on a non-empty array, up to the outer loop of clusterPOIs
PlanZonesStart ==
  /\ pc = "call"
  /\ ~IsEmptyInput(pois)
  /\ mergedConfig' = MergedConfig(config)
  /\ sortedIndices' = SortedIndices(pois)
  /\ seedPos' = 1
  /\ assigned' = NewAssigned
  /\ clusters' = NewClusters
  /\ greedy' = <<>>
  /\ merges' = 0
  /\ lastMerge' = <<>>
  /\ pc' = "cluster"
  /\ UNCHANGED <<input, workingClusters, zones>>
  /\ UNCHANGED <<callerVars, geoVars, uiVars>>

\* for (const seedIndex of sortedIndices): if (assigned.has(seedIndex)) continue
ClusterSkip ==
  /\ pc = "cluster"
  /\ seedPos <= Len(sortedIndices)
  /\ sortedIndices[seedPos] \in assigned
  /\ seedPos' = seedPos + 1
  /\ UNCHANGED <<input, pc, mergedConfig, sortedIndices, assigned, clusters,
                 workingClusters, zones, history>>
  /\ UNCHANGED <<callerVars, geoVars, uiVars>>

\* for (const seedIndex of sortedIndices): a new cluster around the seed
ClusterSeed ==
  /\ pc = "cluster"
  /\ seedPos <= Len(sortedIndices)
  /\ sortedIndices[seedPos] \notin assigned
  /\ LET cluster == SeedCluster(pois, mergedConfig, sortedIndices, assigned,
                                sortedIndices[seedPos])
     IN /\ clusters' = Append(clusters, cluster)
        /\ assigned' = assigned \cup Range(cluster)
  /\ seedPos' = seedPos + 1
  /\ UNCHANGED <<input, pc, mergedConfig, sortedIndices, workingClusters,
                 zones, history>>
  /\ UNCHANGED <<callerVars, geoVars, uiVars>>

\* mergeSmallClusters: if (clusters.length <= 1) return clusters
MergeNothing ==
  /\ pc = "cluster"
  /\ seedPos > Len(sortedIndices)
  /\ Len(clusters) <= 1
  /\ greedy' = clusters
  /\ workingClusters' = clusters
  /\ pc' = "build"
  /\ UNCHANGED <<input, mergedConfig, clusterVars, zones, merges, lastMerge>>
  /\ UNCHANGED <<callerVars, geoVars, uiVars>>

\* mergeSmallClusters: let workingClusters = clusters.map((c) => [...c])
MergeStart ==
  /\ pc = "cluster"
  /\ seedPos > Len(sortedIndices)
  /\ Len(clusters) > 1
  /\ greedy' = clusters
  /\ workingClusters' = clusters
  /\ pc' = "merge"
  /\ UNCHANGED <<input, mergedConfig, clusterVars, zones, merges, lastMerge>>
  /\ UNCHANGED <<callerVars, geoVars, uiVars>>

\* while (changed): a pass of the for loop that ends in a merge
MergePass ==
  /\ pc = "merge"
  /\ Mergeable(pois, mergedConfig, workingClusters) # {}
  /\ LET i == FirstMergeable(pois, mergedConfig, workingClusters)
         best == BestMergeIndex(pois, mergedConfig, workingClusters, i)
     IN /\ workingClusters' = MergeInto(workingClusters, i, best)
        /\ lastMerge' = << [i |-> i - 1, j |-> best - 1,
                            distance |-> CenterDistance(pois, workingClusters[i],
                                                        workingClusters[best]),
                            before |-> workingClusters] >>
  /\ merges' = merges + 1
  /\ UNCHANGED <<input, pc, mergedConfig, clusterVars, zones, greedy>>
  /\ UNCHANGED <<callerVars, geoVars, uiVars>>

\* Mutant of MergeEnd: the loop may end although a pass would still merge.
MergeEndAfterAnyPass ==
  /\ pc = "merge"
  /\ pc' = "build"
  /\ UNCHANGED <<input, mergedConfig, clusterVars, workingClusters, zones,
                 history>>
  /\ UNCHANGED <<callerVars, geoVars, uiVars>>

\* while (changed): a pass without a merge ends the loop
MergeEnd ==
  /\ pc = "merge"
  /\ Mergeable(pois, mergedConfig, workingClusters) = {}
  /\ pc' = "build"
  /\ UNCHANGED <<input, mergedConfig, clusterVars, workingClusters, zones,
                 history>>
  /\ UNCHANGED <<callerVars, geoVars, uiVars>>

\* planZones: the zones of the clusters, sorted and renumbered
BuildZones ==
  /\ pc = "build"
  /\ zones' = ZonesOf(pois, workingClusters)
  /\ pc' = "done"
  /\ UNCHANGED <<input, mergedConfig, clusterVars, workingClusters, history>>
  /\ UNCHANGED <<callerVars, geoVars, uiVars>>

\* The caller calls planZones again with the same arguments.
CallAgain ==
  /\ pc = "done"
  /\ call = 1
  /\ call' = 2
  /\ firstZones' = zones
  /\ pc' = "call"
  /\ UNCHANGED <<pois, config, mergedConfig, clusterVars, workingClusters,
                 zones, history>>
  /\ UNCHANGED <<callerVars, geoVars, uiVars>>

\* The caller resolves every zone of the result to its points and asks for
\* the envelope of the zones.
UseZones ==
  /\ pc = "done"
  /\ call = 2
  /\ zonePois' = [z \in 1..Len(zones) |-> getZonePOIs(pois, zones[z])]
  /\ overallBounds' = <<calculateOverallBounds(zones)>>
  /\ pc' = "used"
  /\ UNCHANGED <<input, mergedConfig, clusterVars, workingClusters, zones,
                 history, again, geoVars, uiVars>>

\* mergeSmallClusters is applied to the list it returned.
RebalanceAgain ==
  /\ pc = "used"
  /\ again = <<>>
  /\ again' = <<mergeSmallClusters(workingClusters, pois, mergedConfig)>>
  /\ UNCHANGED <<plannerVars, zonePois, overallBounds, geoVars, uiVars>>

Next ==
  \/ PlanZonesEmpty
  \/ PlanZonesStart
  \/ ClusterSkip
  \/ ClusterSeed
  \/ MergeNothing
  \/ MergeStart
  \/ MergePass
  \/ MergeEnd
  \/ BuildZones
  \/ CallAgain
  \/ UseZones
  \/ RebalanceAgain

Spec == Init /\ [][Next]_vars

\* planZones and its caller are synchronous code: a step that can be taken
\* is taken. This is weak fairness of Next, written with the states in which
\* no step is possible (the caller has used the zones and has applied the
\* rebalancer again) named outright.
FairSpec ==
  Spec /\ ([]<>(pc = "used" /\ again # <<>>) \/ []<><<Next>>_vars)

-----------------------------------------------------------------------------
(* searchLocations: the MapTiler geocoding search *)

MaxQueryLen == 2

\* UTF-16 code units of a query: a letter, a space, an ampersand, the high
\* surrogate U+D800 and the low surrogate U+DC00.
CodeUnits == {"a", " ", "&", "D800", "DC00"}
Queries == UNION {[1..n -> CodeUnits] : n \in 0..MaxQueryLen}

\* NEXT_PUBLIC_MAPTILER_API_KEY: unset, set to the empty string, or set.
ApiKeys == {<<>>, <<"">>, <<"test-api-key">>}

\* options: the fields the caller gives (none when options is undefined).
OptionsGiven ==
  {<<>>, [limit |-> 10], [proximity |-> [lat |-> 43, lng |-> -79]],
   [limit |-> 10, proximity |-> [lat |-> 43, lng |-> -79]]}

\* The features a MapTiler response may hold; center is <<lng, lat>>.
Features ==
  {[id |-> "place.123", text |-> "Toronto",
    place_name |-> "Toronto, Ontario, Canada", center |-> <<-79, 43>>],
   [id |-> "place.456", text |-> "Toronto Pearson Airport",
    place_name |-> "Toronto Pearson International Airport",
    center |-> <<-80, 44>>]}
FeatureLists == UNION {[1..n -> Features] : n \in 0..2}

\* What fetch may resolve with: ok or not; a body that response.json()
\* cannot read, an object without features, or an object with features.
Bodies ==
  {[json |-> FALSE, hasFeatures |-> FALSE, features |-> <<>>],
   [json |-> TRUE, hasFeatures |-> FALSE, features |-> <<>>]}
  \cup {[json |-> TRUE, hasFeatures |-> TRUE, features |-> f] : f \in FeatureLists}
Responses == [ok : BOOLEAN, body : Bodies]

\* String.prototype.trim on the modelled code units
IsWhiteSpace(u) == u = " "

RECURSIVE TrimStart(_)
TrimStart(s) ==
  IF s # <<>> /\ IsWhiteSpace(Head(s)) THEN TrimStart(Tail(s)) ELSE s

RECURSIVE TrimEnd(_)
TrimEnd(s) ==
  IF s # <<>> /\ IsWhiteSpace(s[Len(s)])
  THEN TrimEnd(SubSeq(s, 1, Len(s) - 1)) ELSE s

\* Mutant of Trim: the query is tested as it is.
NoTrim(s) == s

\* query.trim()
Trim(s) == TrimEnd(TrimStart(s))

\* !apiKey
Falsy(key) == IF key = <<>> THEN TRUE ELSE key[1] = ""

\* options?.limit ?? 5
DefaultLimit == 5
LimitOf(opts) == IF "limit" \in DOMAIN opts THEN opts.limit ELSE DefaultLimit

\* encodeURIComponent: unreserved characters stay, the others become the
\* percent-encoded bytes of their UTF-8 form, a surrogate pair is one code
\* point, and a surrogate without its partner throws a URIError.
IsHighSurrogate(u) == u = "D800"
IsLowSurrogate(u) == u = "DC00"
Escaped(u) ==
  IF u = "a" THEN "a" ELSE IF u = " " THEN "%20" ELSE "%26"

RECURSIVE Encode(_, _)
Encode(s, k) ==
  IF k > Len(s) THEN [error |-> FALSE, text |-> ""]
  ELSE IF IsLowSurrogate(s[k]) THEN [error |-> TRUE, text |-> "URIError"]
  ELSE IF IsHighSurrogate(s[k])
       THEN IF (IF k + 1 > Len(s) THEN TRUE ELSE ~IsLowSurrogate(s[k + 1]))
            THEN [error |-> TRUE, text |-> "URIError"]
            ELSE LET rest == Encode(s, k + 2)
                 IN IF rest.error THEN rest
                    ELSE [error |-> FALSE, text |-> "%F0%90%80%80" \o rest.text]
  ELSE LET rest == Encode(s, k + 1)
       IN IF rest.error THEN rest
          ELSE [error |-> FALSE, text |-> Escaped(s[k]) \o rest.text]

encodeURIComponent(s) == Encode(s, 1)

\* new URLSearchParams({key, limit}) and params.set("proximity", ...)
Params(key, opts) ==
  "key=" \o key[1] \o "&limit=" \o ToString(LimitOf(opts))
  \o (IF "proximity" \in DOMAIN opts
      THEN "&proximity=" \o ToString(opts.proximity.lng) \o "%2C"
           \o ToString(opts.proximity.lat)
      ELSE "")

\* `https://api.maptiler.com/geocoding/${encodedQuery}.json?${params}`
Url(encodedQuery, key, opts) ==
  "https://api.maptiler.com/geocoding/" \o encodedQuery \o ".json?"
  \o Params(key, opts)

\* data.features.map((feature) => ...): center[0] is the first element
ToResult(feature) ==
  [id |-> feature.id, name |-> feature.text, fullAddress |-> feature.place_name,
   lat |-> feature.center[2], lng |-> feature.center[1]]

\* No call of planZones is under way.
PlannerIdle ==
  /\ pois = <<>>
  /\ config = <<>>
  /\ call = 1
  /\ firstZones = <<>>
  /\ pc = "idle"
  /\ mergedConfig = DEFAULT_CONFIG
  /\ sortedIndices = <<>>
  /\ seedPos = 1
  /\ assigned = {}
  /\ clusters = <<>>
  /\ workingClusters = <<>>
  /\ zones = <<>>
  /\ greedy = <<>>
  /\ merges = 0
  /\ lastMerge = <<>>
  /\ zonePois = <<>>
  /\ overallBounds = <<>>
  /\ again = <<>>

InitGeo ==
  /\ PlannerIdle
  /\ UiIdle
  /\ query \in Queries
  /\ apiKey \in ApiKeys
  /\ options \in OptionsGiven
  /\ gpc = "start"
  /\ requests = <<>>
  /\ response = <<>>
  /\ settled = "pending"
  /\ results = <<>>

\* return [] (also what the catch block returns)
ReturnEmpty ==
  /\ settled' = "resolved"
  /\ results' = <<>>
  /\ gpc' = "returned"

\* if (!query.trim()) return []
SearchBlank ==
  /\ gpc = "start"
  /\ Trim(query) = <<>>
  /\ ReturnEmpty
  /\ UNCHANGED <<query, apiKey, options, requests, response>>
  /\ UNCHANGED <<plannerVars, callerVars, uiVars>>

\* if (!apiKey) return []
SearchNoKey ==
  /\ gpc = "start"
  /\ Trim(query) # <<>>
  /\ Falsy(apiKey)
  /\ ReturnEmpty
  /\ UNCHANGED <<query, apiKey, options, requests, response>>
  /\ UNCHANGED <<plannerVars, callerVars, uiVars>>

\* encodeURIComponent(query) throws before the try block: the promise of
\* the async function rejects
SearchMalformed ==
  /\ gpc = "start"
  /\ Trim(query) # <<>>
  /\ ~Falsy(apiKey)
  /\ encodeURIComponent(query).error
  /\ settled' = "rejected"
  /\ gpc' = "returned"
  /\ UNCHANGED <<query, apiKey, options, requests, response, results>>
  /\ UNCHANGED <<plannerVars, callerVars, uiVars>>

\* await fetch(url)
SearchFetch ==
  /\ gpc = "start"
  /\ Trim(query) # <<>>
  /\ ~Falsy(apiKey)
  /\ ~encodeURIComponent(query).error
  /\ requests' = Append(requests,
                        Url(encodeURIComponent(query).text, apiKey, options))
  /\ gpc' = "fetch"
  /\ UNCHANGED <<query, apiKey, options, response, settled, results>>
  /\ UNCHANGED <<plannerVars, callerVars, uiVars>>

\* fetch rejects (a network failure): catch, return []
FetchFails ==
  /\ gpc = "fetch"
  /\ ReturnEmpty
  /\ UNCHANGED <<query, apiKey, options, requests, response>>
  /\ UNCHANGED <<plannerVars, callerVars, uiVars>>

\* if (!response.ok) throw: catch, return []
FetchNotOk ==
  /\ gpc = "fetch"
  /\ \E r \in Responses : ~r.ok /\ response' = <<r>>
  /\ ReturnEmpty
  /\ UNCHANGED <<query, apiKey, options, requests>>
  /\ UNCHANGED <<plannerVars, callerVars, uiVars>>

\* response.ok: await response.json()
FetchOk ==
  /\ gpc = "fetch"
  /\ \E r \in Responses : r.ok /\ response' = <<r>>
  /\ gpc' = "json"
  /\ UNCHANGED <<query, apiKey, options, requests, settled, results>>
  /\ UNCHANGED <<plannerVars, callerVars, uiVars>>

\* response.json() rejects: catch, return []
JsonFails ==
  /\ gpc = "json"
  /\ ~response[1].body.json
  /\ ReturnEmpty
  /\ UNCHANGED <<query, apiKey, options, requests, response>>
  /\ UNCHANGED <<plannerVars, callerVars, uiVars>>

\* data.features is undefined: the TypeError of .map is caught, return []
JsonNoFeatures ==
  /\ gpc = "json"
  /\ response[1].body.json
  /\ ~response[1].body.hasFeatures
  /\ ReturnEmpty
  /\ UNCHANGED <<query, apiKey, options, requests, response>>
  /\ UNCHANGED <<plannerVars, callerVars, uiVars>>

\* return data.features.map(...)
JsonFeatures ==
  /\ gpc = "json"
  /\ response[1].body.json
  /\ response[1].body.hasFeatures
  /\ LET features == response[1].body.features
     IN results' = [k \in 1..Len(features) |-> ToResult(features[k])]
  /\ settled' = "resolved"
  /\ gpc' = "returned"
  /\ UNCHANGED <<query, apiKey, options, requests, response>>
  /\ UNCHANGED <<plannerVars, callerVars, uiVars>>

NextGeo ==
  \/ SearchBlank
  \/ SearchNoKey
  \/ SearchMalformed
  \/ SearchFetch
  \/ FetchFails
  \/ FetchNotOk
  \/ FetchOk
  \/ JsonFails
  \/ JsonNoFeatures
  \/ JsonFeatures

SpecGeo == InitGeo /\ [][NextGeo]_vars

-----------------------------------------------------------------------------
(* getAccessToken: the cached Apple Maps access token *)

MaxTicks == 7
MaxExchanges == 3

\* The requests that may be in getAccessToken at one time.
Callers == {"first", "second"}

\* now + 300
TokenBufferSeconds == 300

\* expiresAt: now + 1800
TokenCacheSeconds == 1800

\* Mutant of StillValid: >= for >.
StillValidAtExpiry(cached, now) ==
  IF cached = <<>> THEN FALSE
  ELSE cached[1].expiresAt >= now + TokenBufferSeconds

\* cachedAccessToken && cachedAccessToken.expiresAt > now + 300
StillValid(cached, now) ==
  IF cached = <<>> THEN FALSE
  ELSE cached[1].expiresAt > now + TokenBufferSeconds

\* A call that has not been made.
NoCall == [pc |-> "idle", now |-> 0, token |-> 0, fromCache |-> FALSE]

InitToken ==
  /\ PlannerIdle
  /\ GeoIdle
  /\ KitIdle
  /\ TimerIdle
  /\ MarkerIdle
  /\ PressIdle
  /\ clock = 0
  /\ cachedAccessToken = <<>>
  /\ credentials \in BOOLEAN
  /\ tokenCalls = [c \in Callers |-> NoCall]
  /\ exchanges = 0
  /\ fetchedAt = [k \in 1..MaxExchanges |-> 0]

\* Time passes, one buffer length at a time.
Tick ==
  /\ clock < MaxTicks * TokenBufferSeconds
  /\ clock' = clock + TokenBufferSeconds
  /\ UNCHANGED <<cachedAccessToken, credentials, tokenCalls, exchanges,
                 fetchedAt>>
  /\ UNCHANGED exceptToken

\* return cachedAccessToken.token
ReturnCached(c) ==
  /\ tokenCalls[c].pc \in {"idle", "returned", "threw"}
  /\ StillValid(cachedAccessToken, clock)
  /\ tokenCalls' = [tokenCalls EXCEPT ![c] =
                      [pc |-> "returned", now |-> clock,
                       token |-> cachedAccessToken[1].token,
                       fromCache |-> TRUE]]
  /\ UNCHANGED <<clock, cachedAccessToken, credentials, exchanges, fetchedAt>>
  /\ UNCHANGED exceptToken

\* throw new Error("Apple Maps credentials not configured")
ThrowNoCredentials(c) ==
  /\ tokenCalls[c].pc \in {"idle", "returned", "threw"}
  /\ ~StillValid(cachedAccessToken, clock)
  /\ ~credentials
  /\ tokenCalls' = [tokenCalls EXCEPT ![c] =
                      [pc |-> "threw", now |-> clock, token |-> 0,
                       fromCache |-> FALSE]]
  /\ UNCHANGED <<clock, cachedAccessToken, credentials, exchanges, fetchedAt>>
  /\ UNCHANGED exceptToken

\* The call finds no valid token and the credentials set: it goes on to
\* await importPKCS8(...), with now as read on entry.
BeginExchange(c) ==
  /\ tokenCalls[c].pc \in {"idle", "returned", "threw"}
  /\ ~StillValid(cachedAccessToken, clock)
  /\ credentials
  /\ tokenCalls' = [tokenCalls EXCEPT ![c] =
                      [pc |-> "import", now |-> clock, token |-> 0,
                       fromCache |-> FALSE]]
  /\ UNCHANGED <<clock, cachedAccessToken, credentials, exchanges, fetchedAt>>
  /\ UNCHANGED exceptToken

\* importPKCS8 resolves: the call goes on to await new SignJWT(...).sign(key)
ImportResolves(c) ==
  /\ tokenCalls[c].pc = "import"
  /\ tokenCalls' = [tokenCalls EXCEPT ![c].pc = "sign"]
  /\ UNCHANGED <<clock, cachedAccessToken, credentials, exchanges, fetchedAt>>
  /\ UNCHANGED exceptToken

\* sign resolves and the exchange request is sent: await fetch(...)
SignResolves(c) ==
  /\ tokenCalls[c].pc = "sign"
  /\ exchanges < MaxExchanges
  /\ exchanges' = exchanges + 1
  /\ tokenCalls' = [tokenCalls EXCEPT ![c].pc = "exchange",
                                      ![c].token = exchanges + 1]
  /\ UNCHANGED <<clock, cachedAccessToken, credentials, fetchedAt>>
  /\ UNCHANGED exceptToken

\* importPKCS8 or sign rejects: the call throws with no request sent.
SigningFails(c) ==
  /\ tokenCalls[c].pc \in {"import", "sign"}
  /\ tokenCalls' = [tokenCalls EXCEPT ![c].pc = "threw"]
  /\ UNCHANGED <<clock, cachedAccessToken, credentials, exchanges, fetchedAt>>
  /\ UNCHANGED exceptToken

\* fetch rejects, the response is not OK, or reading its body rejects: the
\* call throws before line 73
ExchangeFails(c) ==
  /\ tokenCalls[c].pc = "exchange"
  /\ tokenCalls' = [tokenCalls EXCEPT ![c].pc = "threw"]
  /\ UNCHANGED <<clock, cachedAccessToken, credentials, exchanges, fetchedAt>>
  /\ UNCHANGED exceptToken

\* cachedAccessToken = {token: accessToken, expiresAt: now + 1800}
ExchangeSucceeds(c) ==
  /\ tokenCalls[c].pc = "exchange"
  /\ cachedAccessToken' =
       <<[token |-> tokenCalls[c].token,
          expiresAt |-> tokenCalls[c].now + TokenCacheSeconds]>>
  /\ fetchedAt' = [fetchedAt EXCEPT ![tokenCalls[c].token] = clock]
  /\ tokenCalls' = [tokenCalls EXCEPT ![c].pc = "returned"]
  /\ UNCHANGED <<clock, credentials, exchanges>>
  /\ UNCHANGED exceptToken

NextToken ==
  \/ Tick
  \/ \E c \in Callers : ReturnCached(c)
  \/ \E c \in Callers : ThrowNoCredentials(c)
  \/ \E c \in Callers : BeginExchange(c)
  \/ \E c \in Callers : ImportResolves(c)
  \/ \E c \in Callers : SignResolves(c)
  \/ \E c \in Callers : SigningFails(c)
  \/ \E c \in Callers : ExchangeFails(c)
  \/ \E c \in Callers : ExchangeSucceeds(c)

SpecToken == InitToken /\ [][NextToken]_vars

-----------------------------------------------------------------------------
(* loadMapKit and the EditorMap components that call it *)

MaxLoads == 3
MaxPolls == 2

Components == {"one", "two"}

\* Mutant of AfterSuccess: the cached promise is dropped once it is fulfilled.
AfterSuccessCleared(cached) == <<>>

\* resolve(): the module keeps the promise it cached.
AfterSuccess(cached) == cached

\* catch: mapkitLoadPromise = null
AfterFailure(cached) == <<>>

\* window.mapkit is defined once the script has run.
WindowMapkit == script = "loaded"

\* The loads started so far.
Started == {k \in 1..MaxLoads : loads[k] # "none"}

\* The loads whose executor has not finished.
InFlight == {k \in 1..MaxLoads : loads[k] \in {"script", "poll", "fetch", "json"}}

Unmounted == [pc |-> "unmounted", awaits |-> 0]

InitKit ==
  /\ PlannerIdle
  /\ GeoIdle
  /\ TokenIdle
  /\ TimerIdle
  /\ MarkerIdle
  /\ PressIdle
  /\ mapkitLoadPromise = <<>>
  /\ loads = [k \in 1..MaxLoads |-> "none"]
  /\ script \in {"absent", "loading", "loaded"}
  /\ polls = 0
  /\ tokenFetches = 0
  /\ mapkitInits = 0
  /\ mounts = [c \in Components |-> Unmounted]

\* An EditorMap mounts and its initMap calls loadMapKit, which finds a
\* cached promise and returns it.
MountCached(c) ==
  /\ mounts[c].pc = "unmounted"
  /\ mapkitLoadPromise # <<>>
  /\ mounts' = [mounts EXCEPT ![c] = [pc |-> "waiting",
                                      awaits |-> mapkitLoadPromise[1]]]
  /\ UNCHANGED <<mapkitLoadPromise, loads, script, polls, tokenFetches,
                 mapkitInits>>
  /\ UNCHANGED exceptKit

\* An EditorMap mounts and its initMap calls loadMapKit, which finds no
\* cached promise: the executor runs up to its first await, and the new
\* promise is cached.
MountStart(c) ==
  /\ mounts[c].pc = "unmounted"
  /\ mapkitLoadPromise = <<>>
  /\ Cardinality(Started) < MaxLoads
  /\ LET k == Cardinality(Started) + 1
     IN /\ mapkitLoadPromise' = <<k>>
        /\ mounts' = [mounts EXCEPT ![c] = [pc |-> "waiting", awaits |-> k]]
        /\ IF script = "absent"
             THEN /\ script' = "loading"
                  /\ loads' = [loads EXCEPT ![k] = "script"]
                  /\ UNCHANGED tokenFetches
             ELSE IF ~WindowMapkit
               THEN /\ loads' = [loads EXCEPT ![k] = "poll"]
                    /\ UNCHANGED <<script, tokenFetches>>
               ELSE /\ loads' = [loads EXCEPT ![k] = "fetch"]
                    /\ tokenFetches' = tokenFetches + 1
                    /\ UNCHANGED script
  /\ UNCHANGED <<polls, mapkitInits>>
  /\ UNCHANGED exceptKit

\* script.onload: window.mapkit is there, so the loop is skipped and the
\* token is fetched.
ScriptLoads(k) ==
  /\ loads[k] = "script"
  /\ script' = "loaded"
  /\ loads' = [loads EXCEPT ![k] = "fetch"]
  /\ tokenFetches' = tokenFetches + 1
  /\ UNCHANGED <<mapkitLoadPromise, polls, mapkitInits, mounts>>
  /\ UNCHANGED exceptKit

\* script.onerror: the catch clears the cache and rejects; the element stays
\* in the document.
ScriptFails(k) ==
  /\ loads[k] = "script"
  /\ script' = "failed"
  /\ loads' = [loads EXCEPT ![k] = "rejected"]
  /\ mapkitLoadPromise' = AfterFailure(mapkitLoadPromise)
  /\ UNCHANGED <<polls, tokenFetches, mapkitInits, mounts>>
  /\ UNCHANGED exceptKit

\* A script element that no load of this module appended finishes loading,
\* or fails to.
OtherScriptSettles ==
  /\ script = "loading"
  /\ \A k \in 1..MaxLoads : loads[k] # "script"
  /\ script' \in {"loaded", "failed"}
  /\ UNCHANGED <<mapkitLoadPromise, loads, polls, tokenFetches, mapkitInits,
                 mounts>>
  /\ UNCHANGED exceptKit

\* while (!window.mapkit): another 50 ms.
PollAgain(k) ==
  /\ loads[k] = "poll"
  /\ ~WindowMapkit
  /\ polls < MaxPolls
  /\ polls' = polls + 1
  /\ UNCHANGED <<mapkitLoadPromise, loads, script, tokenFetches, mapkitInits,
                 mounts>>
  /\ UNCHANGED exceptKit

\* The loop ends and the token is fetched.
PollEnds(k) ==
  /\ loads[k] = "poll"
  /\ WindowMapkit
  /\ loads' = [loads EXCEPT ![k] = "fetch"]
  /\ tokenFetches' = tokenFetches + 1
  /\ UNCHANGED <<mapkitLoadPromise, script, polls, mapkitInits, mounts>>
  /\ UNCHANGED exceptKit

\* The fetch rejects, or the response is not OK.
TokenFetchFails(k) ==
  /\ loads[k] = "fetch"
  /\ loads' = [loads EXCEPT ![k] = "rejected"]
  /\ mapkitLoadPromise' = AfterFailure(mapkitLoadPromise)
  /\ UNCHANGED <<script, polls, tokenFetches, mapkitInits, mounts>>
  /\ UNCHANGED exceptKit

\* The response is OK.
TokenFetchOk(k) ==
  /\ loads[k] = "fetch"
  /\ loads' = [loads EXCEPT ![k] = "json"]
  /\ UNCHANGED <<mapkitLoadPromise, script, polls, tokenFetches, mapkitInits,
                 mounts>>
  /\ UNCHANGED exceptKit

\* The body cannot be read as an object with a token.
TokenJsonFails(k) ==
  /\ loads[k] = "json"
  /\ loads' = [loads EXCEPT ![k] = "rejected"]
  /\ mapkitLoadPromise' = AfterFailure(mapkitLoadPromise)
  /\ UNCHANGED <<script, polls, tokenFetches, mapkitInits, mounts>>
  /\ UNCHANGED exceptKit

\* The token is read, mapkit.init is called and the promise is resolved.
TokenJsonOk(k) ==
  /\ loads[k] = "json"
  /\ mapkitInits' = mapkitInits + 1
  /\ loads' = [loads EXCEPT ![k] = "fulfilled"]
  /\ mapkitLoadPromise' = AfterSuccess(mapkitLoadPromise)
  /\ UNCHANGED <<script, polls, tokenFetches, mounts>>
  /\ UNCHANGED exceptKit

\* await loadMapKit() ends: the map is created, or the error is logged.
InitMapResumes(c) ==
  /\ mounts[c].pc = "waiting"
  /\ loads[mounts[c].awaits] \in {"fulfilled", "rejected"}
  /\ mounts' = [mounts EXCEPT ![c].pc =
                  IF loads[mounts[c].awaits] = "fulfilled"
                    THEN "ready" ELSE "failed"]
  /\ UNCHANGED <<mapkitLoadPromise, loads, script, polls, tokenFetches,
                 mapkitInits>>
  /\ UNCHANGED exceptKit

\* The EditorMap unmounts.
Unmount(c) ==
  /\ mounts[c].pc # "unmounted"
  /\ mounts' = [mounts EXCEPT ![c] = Unmounted]
  /\ UNCHANGED <<mapkitLoadPromise, loads, script, polls, tokenFetches,
                 mapkitInits>>
  /\ UNCHANGED exceptKit

NextKit ==
  \/ \E c \in Components : MountCached(c)
  \/ \E c \in Components : MountStart(c)
  \/ \E k \in 1..MaxLoads : ScriptLoads(k)
  \/ \E k \in 1..MaxLoads : ScriptFails(k)
  \/ OtherScriptSettles
  \/ \E k \in 1..MaxLoads : PollAgain(k)
  \/ \E k \in 1..MaxLoads : PollEnds(k)
  \/ \E k \in 1..MaxLoads : TokenFetchFails(k)
  \/ \E k \in 1..MaxLoads : TokenFetchOk(k)
  \/ \E k \in 1..MaxLoads : TokenJsonFails(k)
  \/ \E k \in 1..MaxLoads : TokenJsonOk(k)
  \/ \E c \in Components : InitMapResumes(c)
  \/ \E c \in Components : Unmount(c)

SpecKit == InitKit /\ [][NextKit]_vars

-----------------------------------------------------------------------------
(* GameTimer *)

MaxSecondsAfter == 3
MaxUpdates == 8

\* When, relative to the deadline, the page shows the timer for the first
\* time.
LeadTimes == {-2500, -2000, 500}

StartTimes == {500, 1500}
TimeLimits == {1, 2}

\* const endTime = startedAt + timeLimitMinutes * 60 * 1000
EndTime(props) == props.startedAt + props.timeLimitMinutes * 60 * 1000

\* Mutant of Remaining: the difference itself.
RemainingUnclamped(endTime, now) == endTime - now

\* Math.max(0, endTime - Date.now())
Remaining(endTime, now) ==
  IF endTime - now > 0 THEN endTime - now ELSE 0

\* Math.floor(timeLeft / 60000)
Minutes(t) == t \div 60000

\* Math.floor((timeLeft % 60000) / 1000): the remainder of JavaScript's %
\* has the sign of the dividend.
Seconds(t) ==
  LET remainder == IF t >= 0 THEN t % 60000 ELSE -((-t) % 60000)
  IN remainder \div 1000

InitTimer ==
  /\ PlannerIdle
  /\ GeoIdle
  /\ TokenIdle
  /\ KitIdle
  /\ MarkerIdle
  /\ PressIdle
  /\ timerProps \in [startedAt : StartTimes, timeLimitMinutes : TimeLimits,
                     onExpire : BOOLEAN]
  /\ \E lead \in LeadTimes : dateNow = EndTime(timerProps) + lead
  /\ interval = <<>>
  /\ timeLeft = 0
  /\ expireCalls = 0
  /\ updates = 0

\* updateTimer()
UpdateTimer ==
  LET remaining == Remaining(EndTime(timerProps), dateNow)
  IN /\ updates < MaxUpdates
     /\ updates' = updates + 1
     /\ timeLeft' = remaining
     /\ expireCalls' = IF remaining = 0 /\ timerProps.onExpire
                         THEN expireCalls + 1 ELSE expireCalls

\* The effect runs after the first render: updateTimer(), then setInterval.
TimerMount ==
  /\ interval = <<>>
  /\ UpdateTimer
  /\ interval' = <<dateNow + 1000>>
  /\ UNCHANGED <<dateNow, timerProps>>
  /\ UNCHANGED exceptTimer

\* The interval fires.
TimerTick ==
  /\ interval # <<>>
  /\ dateNow >= interval[1]
  /\ UpdateTimer
  /\ interval' = <<dateNow + 1000>>
  /\ UNCHANGED <<dateNow, timerProps>>
  /\ UNCHANGED exceptTimer

\* MultiplayerGame renders again and hands the host's timer a new
\* handleEndGame: the effect is cleaned up and runs again.
TimerRerender ==
  /\ interval # <<>>
  /\ timerProps.onExpire
  /\ UpdateTimer
  /\ interval' = <<dateNow + 1000>>
  /\ UNCHANGED <<dateNow, timerProps>>
  /\ UNCHANGED exceptTimer

\* The component unmounts: clearInterval.
TimerUnmount ==
  /\ interval # <<>>
  /\ interval' = <<>>
  /\ UNCHANGED <<dateNow, timerProps, timeLeft, expireCalls, updates>>
  /\ UNCHANGED exceptTimer

\* Half a second passes.
TimePasses ==
  /\ dateNow < EndTime(timerProps) + MaxSecondsAfter * 1000
  /\ dateNow' = dateNow + 500
  /\ UNCHANGED <<timerProps, interval, timeLeft, expireCalls, updates>>
  /\ UNCHANGED exceptTimer

NextTimer ==
  \/ TimerMount
  \/ TimerTick
  \/ TimerRerender
  \/ TimerUnmount
  \/ TimePasses

SpecTimer == InitTimer /\ [][NextTimer]_vars

-----------------------------------------------------------------------------
(* EditorMap: the effect that manages the race POI annotations *)

MaxPois == 2
MaxAnnotations == 4

PoiIds == {"a", "b", "c", "d"}
Places == {1, 2, 3}

\* RaceEditor's mapPOIs: the POIs of its state, each with order = index + 1.
mapPOIs(ps) ==
  [i \in DOMAIN ps |-> [id |-> ps[i].id, place |-> ps[i].place, order |-> i]]

\* RaceEditor's handleRemovePOI: prev.filter((poi) => poi.id !== poiId)
handleRemovePOI(ps, poiId) == SelectSeq(ps, LAMBDA p : p.id # poiId)

\* RaceEditor's handleSelectPOI: nothing when a POI is at the place already,
\* else the new POI at the end.
handleSelectPOI(ps, poi) ==
  IF \E i \in DOMAIN ps : ps[i].place = poi.place THEN ps
  ELSE Append(ps, poi)

\* The values of the pois prop: lists of POIs with distinct ids, numbered by
\* mapPOIs.
PoiLists ==
  {mapPOIs(ps) :
     ps \in {qs \in UNION {[1..n -> [id : PoiIds, place : Places]] :
                             n \in 0..MaxPois} :
               \A i, j \in DOMAIN qs : i # j => qs[i].id # qs[j].id}}

RECURSIVE StringOf(_)
\* String(n), for a whole number n >= 0
StringOf(n) ==
  LET digits == <<"0", "1", "2", "3", "4", "5", "6", "7", "8", "9">>
  IN IF n < 10 THEN digits[n + 1]
     ELSE StringOf(n \div 10) \o digits[(n % 10) + 1]

\* Mutant of RemoveAnnotation: the marker stays on the map.
RemoveNoAnnotation(anns, a) == anns

\* map.removeAnnotation(a)
RemoveAnnotation(anns, a) ==
  SelectSeq(anns, LAMBDA x : x.serial # a.serial)

\* new window.mapkit.MarkerAnnotation(coordinate, {glyphText, data})
MarkerAnnotation(serial, poi) ==
  [serial |-> serial, id |-> poi.id, place |-> poi.place,
   glyphText |-> StringOf(poi.order)]

\* currentAnnotations.set(id, a)
MapSet(reg, id, a) ==
  [k \in DOMAIN reg \cup {id} |-> IF k = id THEN a ELSE reg[k]]

\* currentAnnotations.delete(id)
MapDelete(reg, id) == [k \in DOMAIN reg \ {id} |-> reg[k]]

RECURSIVE RemoveStale(_, _)
\* currentAnnotations.forEach: the entries whose id is not among the POIs'
\* are taken off the map and out of the registry.
RemoveStale(st, ids) ==
  LET stale == DOMAIN st.reg \ ids
  IN IF stale = {} THEN st
     ELSE LET id == CHOOSE k \in stale : TRUE
          IN RemoveStale([st EXCEPT
                            !.anns = RemoveAnnotation(st.anns, st.reg[id]),
                            !.reg = MapDelete(st.reg, id)],
                         ids)

\* existing.coordinate = new Coordinate(poi.lat, poi.lng): the one object
\* is in the registry and on the map.
MoveAnnotation(st, id, place) ==
  [st EXCEPT !.reg[id].place = place,
             !.anns = [i \in DOMAIN st.anns |->
                         IF st.anns[i].serial = st.reg[id].serial
                           THEN [st.anns[i] EXCEPT !.place = place]
                           ELSE st.anns[i]]]

\* The serial numbers of the annotations on the map or in the registry.
Live(st) ==
  {st.anns[i].serial : i \in DOMAIN st.anns}
    \cup {st.reg[id].serial : id \in DOMAIN st.reg}

\* A new object: the least serial number that no annotation on the map, in
\* the registry or in the set held has.
Fresh(st, held) ==
  LET used == Live(st) \cup held
      n == Cardinality(used) + 1
  IN CHOOSE k \in 1..n : k \notin used /\ \A j \in 1..(k - 1) : j \in used

\* A new MarkerAnnotation, then map.addAnnotation(annotation) and
\* currentAnnotations.set(poi.id, annotation); held are the objects that
\* variables of the effect still refer to.
AddMarker(st, poi, held) ==
  LET a == MarkerAnnotation(Fresh(st, held), poi)
  IN [reg |-> MapSet(st.reg, poi.id, a),
      anns |-> Append(st.anns, a)]

\* The body of pois.forEach for one POI.
SyncPoi(st, poi) ==
  IF poi.id \in DOMAIN st.reg
    THEN LET moved == MoveAnnotation(st, poi.id, poi.place)
             existing == moved.reg[poi.id]
         IN IF existing.glyphText # StringOf(poi.order)
              THEN AddMarker([moved EXCEPT
                                !.anns = RemoveAnnotation(moved.anns, existing),
                                !.reg = MapDelete(moved.reg, poi.id)],
                             poi, {existing.serial})
              ELSE moved
    ELSE AddMarker(st, poi, {})

RECURSIVE SyncPois(_, _, _)
\* pois.forEach, from the i-th POI on
SyncPois(st, ps, i) ==
  IF i > Len(ps) THEN st
  ELSE SyncPois(SyncPoi(st, ps[i]), ps, i + 1)

\* The body of the effect, from the registry, the map and the pois prop.
RacePoiSync(reg, anns, ps) ==
  SyncPois(RemoveStale([reg |-> reg, anns |-> anns],
                       {ps[i].id : i \in DOMAIN ps}),
           ps, 1)

InitMarker ==
  /\ PlannerIdle
  /\ GeoIdle
  /\ TokenIdle
  /\ KitIdle
  /\ TimerIdle
  /\ PressIdle
  /\ poisProp \in PoiLists
  /\ mapReady = FALSE
  /\ raceAnnotations = <<>>
  /\ mapAnnotations = <<>>
  /\ synced = TRUE

\* initMap has created the map: setMapReady(true).
MapBecomesReady ==
  /\ ~mapReady
  /\ mapReady' = TRUE
  /\ synced' = FALSE
  /\ UNCHANGED <<poisProp, raceAnnotations, mapAnnotations>>
  /\ UNCHANGED exceptMarker

\* The lists the pois prop can hold next: a POI removed or added by
\* RaceEditor's handlers, or, changes RaceEditor has no handler for, a POI
\* moved or two neighbours exchanged; each numbered anew by mapPOIs in the
\* same render.
Edits(ps) ==
  LET ids == {ps[i].id : i \in DOMAIN ps}
      exchanged(i) ==
        [j \in DOMAIN ps |-> IF j = i THEN ps[i + 1]
                              ELSE IF j = i + 1 THEN ps[i] ELSE ps[j]]
  IN {mapPOIs(qs) :
        qs \in {handleRemovePOI(ps, id) : id \in ids}
          \cup {handleSelectPOI(ps, [id |-> id, place |-> q]) :
                  id \in PoiIds \ ids, q \in Places}
          \cup {[ps EXCEPT ![i].place = q] : i \in DOMAIN ps, q \in Places}
          \cup {exchanged(i) : i \in 1..(Len(ps) - 1)}}
       \cap PoiLists

\* The parent renders the map with an edited list of POIs; the effects of
\* the render before have run by then.
PoisChange ==
  /\ synced
  /\ \E ps \in Edits(poisProp) :
       /\ ps # poisProp
       /\ poisProp' = ps
  /\ synced' = FALSE
  /\ UNCHANGED <<mapReady, raceAnnotations, mapAnnotations>>
  /\ UNCHANGED exceptMarker

\* The effect runs without a map: it returns at once.
RacePoiEffectSkips ==
  /\ ~synced
  /\ ~mapReady
  /\ synced' = TRUE
  /\ UNCHANGED <<poisProp, mapReady, raceAnnotations, mapAnnotations>>
  /\ UNCHANGED exceptMarker

\* The effect runs with the map ready.
RacePoiEffect ==
  /\ ~synced
  /\ mapReady
  /\ LET st == RacePoiSync(raceAnnotations, mapAnnotations, poisProp)
     IN /\ \A k \in Live(st) : k <= MaxAnnotations
        /\ raceAnnotations' = st.reg
        /\ mapAnnotations' = st.anns
  /\ synced' = TRUE
  /\ UNCHANGED <<poisProp, mapReady>>
  /\ UNCHANGED exceptMarker

\* The cleanup of the init effect: the map is destroyed and the registry
\* cleared.
MapDestroyed ==
  /\ mapReady
  /\ mapReady' = FALSE
  /\ raceAnnotations' = <<>>
  /\ mapAnnotations' = <<>>
  /\ synced' = FALSE
  /\ UNCHANGED poisProp
  /\ UNCHANGED exceptMarker

NextMarker ==
  \/ MapBecomesReady
  \/ PoisChange
  \/ RacePoiEffectSkips
  \/ RacePoiEffect
  \/ MapDestroyed

SpecMarker == InitMarker /\ [][NextMarker]_vars

-----------------------------------------------------------------------------
(* EditorMap: selection, deselection and the long-press timer *)

MaxPressTicks == 8
MaxTimers == 2

RaceMarkers == {"a", "b"}

LONG_PRESS_DURATION == 500

\* clearLongPress, on the pending timeouts: clearTimeout of the one the ref
\* holds, if it holds one.
clearLongPress(ts, ref) ==
  IF ref = <<>> THEN ts ELSE {t \in ts : t.handle # ref[1]}

InitPress ==
  /\ PlannerIdle
  /\ GeoIdle
  /\ TokenIdle
  /\ KitIdle
  /\ TimerIdle
  /\ MarkerIdle
  /\ pressNow = 0
  /\ listening = FALSE
  /\ onLongPressPOI \in BOOLEAN
  /\ timers = {}
  /\ longPressTimerRef = <<>>
  /\ longPressPOIRef = <<>>
  /\ selectedAt = <<>>
  /\ lastCall = <<>>

\* A component is mounted, its map is ready and the effect registers the two
\* handlers. The component has refs of its own, both null; the timeouts an
\* unmounted component left pending are not its own.
PressMount ==
  /\ ~listening
  /\ listening' = TRUE
  /\ longPressTimerRef' = <<>>
  /\ longPressPOIRef' = <<>>
  /\ UNCHANGED <<pressNow, onLongPressPOI, timers, selectedAt, lastCall>>
  /\ UNCHANGED exceptPress

\* handleSelect for a race marker that was not the selected one: the refs
\* are set and a timeout is started.
SelectRace(id) ==
  /\ listening
  /\ IF selectedAt = <<>> THEN TRUE ELSE selectedAt[1].id # id
  /\ Cardinality(timers) < MaxTimers
  /\ LET h == CHOOSE k \in 1..MaxTimers :
                /\ \A t \in timers : t.handle # k
                /\ \A j \in 1..(k - 1) : \E t \in timers : t.handle = j
     IN /\ timers' = timers \cup
                       {[handle |-> h, due |-> pressNow + LONG_PRESS_DURATION,
                         own |-> TRUE]}
        /\ longPressTimerRef' = <<h>>
  /\ longPressPOIRef' = <<id>>
  /\ selectedAt' = <<[id |-> id, at |-> pressNow]>>
  /\ UNCHANGED <<pressNow, listening, onLongPressPOI, lastCall>>
  /\ UNCHANGED exceptPress

\* handleSelect for a nearby, searched or native annotation: no ref and no
\* timeout is touched.
SelectOther ==
  /\ listening
  /\ UNCHANGED <<pressNow, listening, onLongPressPOI, timers,
                 longPressTimerRef, longPressPOIRef, selectedAt, lastCall>>
  /\ UNCHANGED exceptPress

\* handleDeselect
Deselect ==
  /\ listening
  /\ timers' = clearLongPress(timers, longPressTimerRef)
  /\ longPressTimerRef' = <<>>
  /\ longPressPOIRef' = <<>>
  /\ selectedAt' = <<>>
  /\ UNCHANGED <<pressNow, listening, onLongPressPOI, lastCall>>
  /\ UNCHANGED exceptPress

\* A timeout fires: onLongPressPOI is called with the id in the ref, if
\* there is one and the prop is given; then clearLongPress. The refs are
\* those of the component that set the timeout: when that component is
\* unmounted they are null, nothing is called and nothing is cleared.
LongPressFires(t) ==
  /\ t \in timers
  /\ pressNow >= t.due
  /\ lastCall' = IF t.own /\ longPressPOIRef # <<>> /\ onLongPressPOI
                   THEN <<[id |-> longPressPOIRef[1], at |-> pressNow,
                           selected |-> selectedAt]>>
                   ELSE lastCall
  /\ timers' = IF t.own THEN clearLongPress(timers \ {t}, longPressTimerRef)
                         ELSE timers \ {t}
  /\ longPressTimerRef' = IF t.own THEN <<>> ELSE longPressTimerRef
  /\ longPressPOIRef' = IF t.own THEN <<>> ELSE longPressPOIRef
  /\ UNCHANGED <<pressNow, listening, onLongPressPOI, selectedAt>>
  /\ UNCHANGED exceptPress

\* A prop among the effect's dependencies changes: the cleanup removes the
\* handlers and calls clearLongPress, and the effect registers new ones.
Reregister ==
  /\ listening
  /\ timers' = clearLongPress(timers, longPressTimerRef)
  /\ longPressTimerRef' = <<>>
  /\ longPressPOIRef' = <<>>
  /\ selectedAt' = <<>>
  /\ UNCHANGED <<pressNow, listening, onLongPressPOI, lastCall>>
  /\ UNCHANGED exceptPress

\* The component unmounts: both cleanups call clearLongPress. The timeouts
\* left pending keep the refs of this component, which stay null.
PressUnmount ==
  /\ listening
  /\ listening' = FALSE
  /\ timers' = {[t EXCEPT !.own = FALSE] :
                  t \in clearLongPress(timers, longPressTimerRef)}
  /\ longPressTimerRef' = <<>>
  /\ longPressPOIRef' = <<>>
  /\ selectedAt' = <<>>
  /\ UNCHANGED <<pressNow, onLongPressPOI, lastCall>>
  /\ UNCHANGED exceptPress

\* 100 ms pass.
PressTimePasses ==
  /\ pressNow < MaxPressTicks * 100
  /\ pressNow' = pressNow + 100
  /\ UNCHANGED <<listening, onLongPressPOI, timers, longPressTimerRef,
                 longPressPOIRef, selectedAt, lastCall>>
  /\ UNCHANGED exceptPress

NextPress ==
  \/ PressMount
  \/ \E id \in RaceMarkers : SelectRace(id)
  \/ SelectOther
  \/ Deselect
  \/ \E t \in timers : LongPressFires(t)
  \/ Reregister
  \/ PressUnmount
  \/ PressTimePasses

SpecPress == InitPress /\ [][NextPress]_vars

-----------------------------------------------------------------------------
(* Properties of planZones *)

RECURSIVE Flatten(_)
Flatten(ss) == IF ss = <<>> THEN <<>> ELSE Head(ss) \o Flatten(Tail(ss))

\* The index lists of the returned zones, in the returned order.
ZoneIndexLists == [k \in 1..Len(zones) |-> zones[k].poiIndices]

\* The call runs with the default configuration.
DefaultConfigCall == MergedConfig(config) = DEFAULT_CONFIG

\* The input is two points whose distance is d metres to the nearest metre.
TwoPointsApart(d) ==
  /\ Len(pois) = 2
  /\ (haversineDistance(pois[1].lat, pois[1].lng, pois[2].lat, pois[2].lng)
        + 500) \div 1000 = d

\* C1 (partition): the index lists of the returned zones together hold
\* every index 0..n-1 of the input exactly once, and nothing else.
C1_Partition ==
  pc = "done" =>
    LET all == Flatten(ZoneIndexLists)
    IN /\ Len(all) = Len(pois)
       /\ Range(all) = 0..(Len(pois) - 1)

C1_Witness ==
  /\ pc = "done"
  /\ Len(pois) = 3
  /\ Len(zones) = 2
  /\ merges = 1

\* C2 (size bound): every cluster built by the greedy loop, every cluster
\* of the rebalancer after each merge, and every returned zone has at least
\* one and at most maxPoisPerZone members.
C2_SizeBound ==
  LET Fits(c) == 1 <= Len(c) /\ Len(c) <= mergedConfig.maxPoisPerZone
  IN /\ \A k \in 1..Len(clusters) : Fits(clusters[k])
     /\ \A k \in 1..Len(workingClusters) : Fits(workingClusters[k])
     /\ pc = "done" => \A k \in 1..Len(zones) : Fits(zones[k].poiIndices)

C2_Witness ==
  /\ pc = "done"
  /\ merges >= 1
  /\ mergedConfig.minPoisPerZone > mergedConfig.maxPoisPerZone
  /\ \E k \in 1..Len(zones) :
       Len(zones[k].poiIndices) = mergedConfig.maxPoisPerZone
  /\ \E k \in 1..Len(zones) :
       Len(zones[k].poiIndices) < mergedConfig.maxPoisPerZone

\* C3 (determinism): the second call on the same points and configuration
\* returns the zones of the first call, in the same order with the same ids
\* and index lists; points of equal latitude are seeded in index order.
C3_Determinism ==
  /\ (call = 2 /\ pc = "done") => zones = firstZones
  /\ \A p, q \in 1..Len(sortedIndices) :
       (p < q /\ Poi(pois, sortedIndices[p]).lat = Poi(pois, sortedIndices[q]).lat)
         => sortedIndices[p] < sortedIndices[q]

C3_Witness ==
  /\ call = 2
  /\ pc = "done"
  /\ Len(zones) >= 2
  /\ merges >= 1
  /\ zones = firstZones
  /\ \E a, b \in 1..Len(pois) : a # b /\ pois[a].lat = pois[b].lat

\* The norths of two zones are within 0.01 degree ("same row").
SameRow(a, b) == 3 * Abs(a.bounds.north - b.bounds.north) <= 20000

\* The ordering the specification states of a zone a returned before b.
InOrder(a, b) ==
  \/ 3 * (a.bounds.north - b.bounds.north) > 20000
  \/ (SameRow(a, b) /\ a.bounds.west <= b.bounds.west)

\* C4 as stated (ordering): any two zones, the first returned before the
\* second, are in order: the first more than 0.01 degree further north, or
\* both in the same row and the first not further east.
C4_Original ==
  pc = "done" =>
    \A i, j \in 1..Len(zones) : i < j => InOrder(zones[i], zones[j])

\* Being in the same row is transitive among the returned zones.
RowsTransitive ==
  \A a, b, c \in Range(zones) :
    (SameRow(a, b) /\ SameRow(b, c)) => SameRow(a, c)

\* C4 as amended (ordering): when being in the same row is transitive among
\* the returned zones, any two zones, the first returned before the second,
\* are in order.
C4_OrderingWithinRows ==
  (pc = "done" /\ RowsTransitive) =>
    \A i, j \in 1..Len(zones) : i < j => InOrder(zones[i], zones[j])

C4_Witness ==
  /\ pc = "done"
  /\ RowsTransitive
  /\ Len(zones) = 3
  /\ ZoneIndexLists # workingClusters
  /\ \E a, b \in Range(zones) :
       SameRow(a, b) /\ a.bounds.north > b.bounds.north
                     /\ a.bounds.west > b.bounds.west
  /\ \E a, b \in Range(zones) : ~SameRow(a, b)

\* C5 (overall bounds): for a non-empty input the overall bounds of the
\* returned zones are the bounds of the input points.
C5_OverallBounds ==
  (pc = "done" /\ Len(pois) > 0) =>
    LET overall == calculateOverallBounds(zones)
        lats == {pois[k].lat : k \in 1..Len(pois)}
        lngs == {pois[k].lng : k \in 1..Len(pois)}
    IN /\ overall = calculateBounds(pois)
       /\ overall.north \in lats /\ \A x \in lats : x <= overall.north
       /\ overall.south \in lats /\ \A x \in lats : overall.south <= x
       /\ overall.east \in lngs /\ \A x \in lngs : x <= overall.east
       /\ overall.west \in lngs /\ \A x \in lngs : overall.west <= x

C5_Witness ==
  /\ pc = "done"
  /\ Len(zones) >= 2
  /\ \A k \in 1..Len(zones) : zones[k].bounds # calculateOverallBounds(zones)
  /\ calculateOverallBounds(zones) = calculateBounds(pois)

\* C6 (zone ids): the zone returned at position i, counted from 0, has the
\* id "zone-i", whatever position its cluster had before the sort.
C6_ZoneIds ==
  pc = "done" =>
    \A k \in 1..Len(zones) : zones[k].id = "zone-" \o ToString(k - 1)

C6_Witness ==
  /\ pc = "done"
  /\ Len(zones) = 3
  /\ \A k \in 1..Len(zones) : zones[k].poiIndices # workingClusters[k]
  /\ zones[3].id = "zone-2"

\* C7 (empty result): planZones returns no zone exactly when the input is
\* empty, and an empty input is answered before any clustering.
C7_EmptyIffEmpty ==
  /\ pc = "done" => ((Len(zones) = 0) <=> (Len(pois) = 0))
  /\ Len(pois) = 0 => (sortedIndices = <<>> /\ clusters = <<>> /\ greedy = <<>>)

C7_Witness ==
  /\ pc = "done"
  /\ Len(pois) = 0
  /\ zones = <<>>
  /\ call = 2

\* C8 as stated: two points 10 m apart under the default configuration
\* give one zone with the index list [0, 1], whichever point is further
\* north.
C8_Original ==
  (pc = "done" /\ DefaultConfigCall /\ TwoPointsApart(10)) =>
    (Len(zones) = 1 /\ zones[1].poiIndices = <<0, 1>>)

\* C8 as amended: two points 10 m apart under the default configuration
\* give one zone; its index list is [0, 1] when point 0 is at least as far
\* north as point 1, and [1, 0] when point 1 is further north.
C8_TwoNearPoints ==
  (pc = "done" /\ DefaultConfigCall /\ TwoPointsApart(10)) =>
    /\ Len(zones) = 1
    /\ zones[1].poiIndices =
         IF pois[1].lat >= pois[2].lat THEN <<0, 1>> ELSE <<1, 0>>

C8_Witness ==
  /\ pc = "done"
  /\ DefaultConfigCall
  /\ TwoPointsApart(10)
  /\ pois[2].lat > pois[1].lat
  /\ ZoneIndexLists = << <<1, 0>> >>

\* C9 (merge distance limit): no merge joins two clusters whose centroids
\* are, at the merge, further apart than 3 x clusterRadiusMeters; two points
\* about 5000 m apart under the default configuration end as two zones of
\* one index each.
C9_MergeDistanceLimit ==
  /\ lastMerge # <<>> =>
       lastMerge[1].distance <= 3 * 1000 * mergedConfig.clusterRadiusMeters
  /\ (pc = "done" /\ DefaultConfigCall /\ TwoPointsApart(5004)) =>
       /\ Len(zones) = 2
       /\ \A k \in 1..2 : Len(zones[k].poiIndices) = 1

C9_Witness ==
  /\ pc = "merge"
  /\ lastMerge # <<>>
  /\ lastMerge[1].distance > 2 * 1000 * mergedConfig.clusterRadiusMeters
  /\ lastMerge[1].distance <= 3 * 1000 * mergedConfig.clusterRadiusMeters

\* All points of the input lie pairwise within clusterRadiusMeters.
AllWithinRadius ==
  \A a, b \in 1..Len(pois) :
    haversineDistance(pois[a].lat, pois[a].lng, pois[b].lat, pois[b].lng)
      <= 1000 * MergedConfig(config).clusterRadiusMeters

\* C10 (capacity-bounded split): n points pairwise within the radius with
\* maxPoisPerZone = m give floor(n/m) zones of m members and, when m does
\* not divide n, one more zone with the n mod m others; no merge happens.
C10_CapacitySplit ==
  (pc = "done" /\ AllWithinRadius) =>
    LET n == Len(pois)
        m == MergedConfig(config).maxPoisPerZone
        full == {k \in 1..Len(zones) : Len(zones[k].poiIndices) = m}
        rest == {k \in 1..Len(zones) : Len(zones[k].poiIndices) = n % m}
    IN /\ Len(zones) = (n + m - 1) \div m
       /\ IF n % m = 0
          THEN Cardinality(full) = n \div m
          ELSE Cardinality(full) = n \div m /\ Cardinality(rest) = 1
       /\ n > 0 => merges = 0

C10_Witness ==
  /\ pc = "done"
  /\ AllWithinRadius
  /\ Len(pois) = 3
  /\ mergedConfig.maxPoisPerZone = 2
  /\ mergedConfig.minPoisPerZone = 3
  /\ \E k \in 1..Len(zones) : Len(zones[k].poiIndices) = 1
  /\ \E k \in 1..Len(zones) : Len(zones[k].poiIndices) = 2
  /\ \E a, b \in 1..Len(pois) : pois[a] # pois[b]

-----------------------------------------------------------------------------
(* Properties of getZonePOIs and calculateOverallBounds *)

\* How often p occurs in the sequence s.
Occurrences(s, p) == Cardinality({k \in 1..Len(s) : s[k] = p})

\* C11: getZonePOIs(points, zone) has the length of zone.poiIndices and its
\* k-th element is points[zone.poiIndices[k]]; the results for all the zones
\* of planZones(points), one after the other, are a permutation of points.
C11_ZonePois ==
  pc = "used" =>
    /\ Len(zonePois) = Len(zones)
    /\ \A z \in 1..Len(zones) :
         /\ Len(zonePois[z]) = Len(zones[z].poiIndices)
         /\ \A k \in 1..Len(zonePois[z]) :
              zonePois[z][k] = pois[zones[z].poiIndices[k] + 1]
    /\ Len(Flatten(zonePois)) = Len(pois)
    /\ \A p \in Range(pois) :
         Occurrences(Flatten(zonePois), p) = Occurrences(pois, p)

\* Two zones, one of them listing its members against the order of the array,
\* and a point that occurs twice.
C11_Witness ==
  /\ pc = "used"
  /\ Len(zones) = 2
  /\ \E z \in 1..Len(zones) :
       /\ Len(zones[z].poiIndices) = 2
       /\ zones[z].poiIndices[1] > zones[z].poiIndices[2]
  /\ \E p \in Range(pois) : Occurrences(pois, p) = 2

\* C12: calculateOverallBounds(zones) is null exactly when zones is empty;
\* otherwise its north is the greatest north, its south the least south, its
\* east the greatest east and its west the least west of the zones' bounds,
\* so that it contains the bounds of every zone.
C12_OverallBoundsEnvelope ==
  pc = "used" =>
    IF Len(zones) = 0 THEN overallBounds[1] = "null"
    ELSE LET b == overallBounds[1]
             Z == 1..Len(zones)
         IN /\ \E z \in Z : b.north = zones[z].bounds.north
            /\ \E z \in Z : b.south = zones[z].bounds.south
            /\ \E z \in Z : b.east = zones[z].bounds.east
            /\ \E z \in Z : b.west = zones[z].bounds.west
            /\ \A z \in Z : /\ zones[z].bounds.north <= b.north
                             /\ zones[z].bounds.south >= b.south
                             /\ zones[z].bounds.east <= b.east
                             /\ zones[z].bounds.west >= b.west

\* Several zones, none of which spans the envelope on its own, one of them
\* reaching further south than another.
C12_Witness ==
  /\ pc = "used"
  /\ Len(zones) >= 2
  /\ \A z \in 1..Len(zones) : zones[z].bounds # overallBounds[1]
  /\ \E y, z \in 1..Len(zones) : zones[y].bounds.south < zones[z].bounds.south

-----------------------------------------------------------------------------
(* Properties of searchLocations *)

\* The query is empty or holds nothing but white space.
IsBlank(q) == \A k \in 1..Len(q) : q[k] = " "

\* The MapTiler API key is not configured.
KeyMissing == apiKey \in {<<>>, <<"">>}

\* The fetch of this search resolved with an OK response whose body is an
\* object with a features array.
SearchSucceeded ==
  /\ response # <<>>
  /\ response[1].ok
  /\ response[1].body.json
  /\ response[1].body.hasFeatures

\* C13: searchLocations returns an empty list and issues no network request
\* when the query is empty or only white space, or when the MapTiler API key
\* is not configured.
C13_NoRequestWithoutQueryOrKey ==
  (gpc # "idle" /\ (IsBlank(query) \/ KeyMissing)) =>
    /\ requests = <<>>
    /\ gpc \in {"start", "returned"}
    /\ gpc = "returned" => (settled = "resolved" /\ results = <<>>)

\* A search for two spaces has returned although the key is configured.
C13_Witness ==
  /\ gpc = "returned"
  /\ query = <<" ", " ">>
  /\ apiKey = <<"test-api-key">>
  /\ settled = "resolved"
  /\ requests = <<>>

\* C14: searchLocations never rejects: after a non-OK status, a network
\* failure or a body that cannot be read it resolves to the empty list, and
\* after a successful response it resolves to one result per feature, in
\* order, with lat = center[1] and lng = center[0].
C14_NeverRejects ==
  gpc = "returned" =>
    /\ settled = "resolved"
    /\ IF SearchSucceeded
       THEN LET features == response[1].body.features
            IN /\ Len(results) = Len(features)
               /\ \A k \in 1..Len(features) :
                    /\ results[k].id = features[k].id
                    /\ results[k].lat = features[k].center[2]
                    /\ results[k].lng = features[k].center[1]
       ELSE results = <<>>

-----------------------------------------------------------------------------
(* Properties of the rebalancer and of the calls as a whole *)

\* C15: planZones, getZonePOIs and calculateOverallBounds leave their
\* arguments as they were (the points and the configuration through every
\* step of planZones, the points and the zones when the caller resolves the
\* zones), and a call of planZones starts from a fresh assigned set and a
\* fresh cluster list whatever an earlier call left behind.
C15_ArgumentsUntouched ==
  [][ /\ pois' = pois
      /\ config' = config
      /\ (pc = "done" /\ pc' = "used") => zones' = zones
      /\ (pc = "call" /\ pc' = "cluster") =>
            (assigned' = {} /\ clusters' = <<>>) ]_vars

\* The second call has just begun; the first call left its clusters behind.
C15_Witness ==
  /\ call = 2
  /\ pc = "cluster"
  /\ seedPos = 1
  /\ Len(firstZones) >= 2
  /\ workingClusters # <<>>
  /\ assigned = {}
  /\ clusters = <<>>

\* Cluster a, of fewer than minPoisPerZone members, may absorb cluster b: the
\* two together have at most maxPoisPerZone members and their centroids are
\* at most three times the radius apart.
EligiblePartner(a, b) ==
  /\ Len(a) < mergedConfig.minPoisPerZone
  /\ Len(a) + Len(b) <= mergedConfig.maxPoisPerZone
  /\ CenterDistance(pois, a, b) <= 3000 * mergedConfig.clusterRadiusMeters

\* C16: in the list the rebalancer returns no cluster of fewer than
\* minPoisPerZone members has an eligible partner, and so none of the zones
\* planZones returns has one.
C16_RebalancerFixedPoint ==
  /\ pc \in {"build", "done", "used"} =>
       \A i, j \in 1..Len(workingClusters) :
         i # j => ~EligiblePartner(workingClusters[i], workingClusters[j])
  /\ pc \in {"done", "used"} =>
       \A y, z \in 1..Len(zones) :
         y # z => ~EligiblePartner(zones[y].poiIndices, zones[z].poiIndices)

\* The rebalancer merged and still returned a cluster below the minimum next
\* to another cluster.
C16_Witness ==
  /\ pc = "done"
  /\ merges >= 1
  /\ Len(workingClusters) >= 2
  /\ \E i \in 1..Len(workingClusters) :
       Len(workingClusters[i]) < mergedConfig.minPoisPerZone

\* C17: whenever the rebalancer merges an undersized cluster i with a
\* cluster j, j is an eligible partner of i and no eligible partner of i in
\* the list at that moment has its centroid nearer to the centroid of i.
C17_NearestEligiblePartner ==
  lastMerge # <<>> =>
    LET before == lastMerge[1].before
        i == lastMerge[1].i + 1
        j == lastMerge[1].j + 1
    IN /\ i # j
       /\ EligiblePartner(before[i], before[j])
       /\ \A k \in 1..Len(before) :
            (k # i /\ EligiblePartner(before[i], before[k])) =>
              CenterDistance(pois, before[i], before[j])
                <= CenterDistance(pois, before[i], before[k])

\* A merge in which an eligible partner further away stood earlier in the
\* list than the partner that was absorbed.
C17_Witness ==
  /\ lastMerge # <<>>
  /\ LET before == lastMerge[1].before
         i == lastMerge[1].i + 1
         j == lastMerge[1].j + 1
     IN \E k \in 1..Len(before) :
          /\ k # i
          /\ k < j
          /\ EligiblePartner(before[i], before[k])
          /\ CenterDistance(pois, before[i], before[j])
               < CenterDistance(pois, before[i], before[k])

RECURSIVE IsConcatenationOf(_, _)
\* The sequence c is some of the greedy clusters numbered in G, each taken
\* whole and at most once, one after the other.
IsConcatenationOf(c, G) ==
  IF c = <<>> THEN TRUE
  ELSE \E g \in G :
         /\ Len(greedy[g]) <= Len(c)
         /\ SubSeq(c, 1, Len(greedy[g])) = greedy[g]
         /\ IsConcatenationOf(SubSeq(c, Len(greedy[g]) + 1, Len(c)), G \ {g})

\* The list after the merge of the clusters at the 0-based positions i and j
\* of the list before: before[i] followed by before[j] stands where
\* before[i] stood, before[j] is gone, the others keep their order.
AfterMerge(before, i, j) ==
  [k \in 1..(Len(before) - 1) |->
     LET from == IF k < j + 1 THEN k ELSE k + 1
     IN IF from = i + 1 THEN before[i + 1] \o before[j + 1] ELSE before[from]]

\* C18: the rebalancer only coarsens: every cluster of its list is a
\* concatenation of whole clusters of the list it was given, the absorbing
\* cluster's members first at every merge; the list covers the same indices
\* and has at most as many clusters.
C18_OnlyCoarsens ==
  pc \in {"merge", "build", "done", "used"} =>
    /\ Len(workingClusters) <= Len(greedy)
    /\ Range(Flatten(workingClusters)) = Range(Flatten(greedy))
    /\ Len(Flatten(workingClusters)) = Len(Flatten(greedy))
    /\ \A k \in 1..Len(workingClusters) :
         IsConcatenationOf(workingClusters[k], 1..Len(greedy))
    /\ lastMerge # <<>> =>
         workingClusters = AfterMerge(lastMerge[1].before, lastMerge[1].i,
                                      lastMerge[1].j)

\* Three greedy clusters became one in two merges, the third of them
\* absorbed before the second.
C18_Witness ==
  /\ pc = "done"
  /\ merges = 2
  /\ Len(greedy) = 3
  /\ Len(workingClusters) = 1
  /\ workingClusters[1] = greedy[1] \o greedy[3] \o greedy[2]

\* C19: planZones terminates: both calls return and the caller gets to use
\* the zones. The rebalancer merges at most k - 1 times for k greedy
\* clusters; every pass but the last takes exactly one cluster off the list,
\* and a pass that merges nothing ends the loop.
C19_Termination ==
  /\ <>(pc = "used")
  /\ [](pc \in {"merge", "build", "done", "used"} =>
          /\ Len(workingClusters) = Len(greedy) - merges
          /\ merges <= IF Len(greedy) = 0 THEN 0 ELSE Len(greedy) - 1)
  /\ [][pc = "merge" =>
          IF workingClusters' # workingClusters
          THEN /\ Len(workingClusters') = Len(workingClusters) - 1
               /\ merges' = merges + 1
               /\ pc' = "merge"
          ELSE pc' = "build" /\ merges' = merges]_vars

\* A call has returned after its rebalancer merged k - 1 times for k = 3
\* greedy clusters, and the caller has used the zones.
C19_Witness ==
  /\ pc = "used"
  /\ Len(greedy) = 3
  /\ merges = 2
  /\ Len(zones) = 1

\* The distances the code computes between the positions the inputs are
\* drawn from.
PositionDistances ==
  [p \in Positions, q \in Positions |->
     haversineDistance(p.lat, p.lng, q.lat, q.lng)]

\* The distance the code computes between the points at two indices.
IndexDistance(a, b) == PositionDistances[Poi(pois, a), Poi(pois, b)]

\* Every member of the index list c is within the radius of its first index.
AroundFirst(c) ==
  \A k \in 1..Len(c) :
    IndexDistance(c[1], c[k]) <= 1000 * mergedConfig.clusterRadiusMeters

\* C20: in every cluster of the greedy clusterer, before rebalancing, each
\* member is at most clusterRadiusMeters from the seed, the first index of
\* the cluster, a distance equal to the radius being accepted; hence when
\* minPoisPerZone <= 1 every member of every returned zone is within the
\* radius of the zone's first index.
C20_RadiusMembership ==
  /\ pc = "cluster" => \A k \in 1..Len(clusters) : AroundFirst(clusters[k])
  /\ pc \in {"merge", "build", "done", "used"} =>
       \A k \in 1..Len(greedy) : AroundFirst(greedy[k])
  /\ (pc \in {"done", "used"} /\ mergedConfig.minPoisPerZone <= 1) =>
       \A z \in 1..Len(zones) : AroundFirst(zones[z].poiIndices)

\* With minPoisPerZone = 1, a returned zone has a member other than its seed
\* whose distance from the seed equals the radius, next to a zone of a point
\* that is further away.
C20_Witness ==
  /\ pc = "done"
  /\ mergedConfig.minPoisPerZone = 1
  /\ Len(zones) = 2
  /\ \E z \in 1..Len(zones) :
       /\ Len(zones[z].poiIndices) = 2
       /\ IndexDistance(zones[z].poiIndices[1], zones[z].poiIndices[2])
            = 1000 * mergedConfig.clusterRadiusMeters

-----------------------------------------------------------------------------
(* Properties of the greedy clusterer *)

\* The latitude of the point at index a.
LatOf(a) == Poi(pois, a).lat

\* The indices of the clusters before the k-th one of the list cs.
TakenBefore(cs, k) == UNION {Range(cs[j]) : j \in 1..(k - 1)}

\* The seed of the k-th cluster of cs was, among the indices no earlier
\* cluster holds, one of greatest latitude and of these the lowest index.
SeedIsNorthernmostLeft(cs, k) ==
  \A u \in (0..(Len(pois) - 1)) \ TakenBefore(cs, k) :
    \/ LatOf(u) < LatOf(cs[k][1])
    \/ LatOf(u) = LatOf(cs[k][1]) /\ cs[k][1] <= u

\* The clusters the greedy clusterer has built so far, or built in all: the
\* list is complete when the rebalancer is entered and is kept as it is.
GreedySoFar == IF pc = "cluster" THEN clusters ELSE greedy

\* C21: each time the greedy clusterer opens a cluster, its seed is a point
\* of greatest latitude among the points unassigned at that moment, the
\* lowest index among equal latitudes; so the seed is a northernmost member
\* of its cluster and the seeds' latitudes never increase along the list.
C21_SeedChoice ==
  pc \in {"cluster", "merge"} =>
    LET cs == GreedySoFar
    IN /\ \A k \in 1..Len(cs) : SeedIsNorthernmostLeft(cs, k)
       /\ \A k \in 1..Len(cs) : \A m \in 1..Len(cs[k]) :
            LatOf(cs[k][m]) <= LatOf(cs[k][1])
       /\ \A k \in 1..(Len(cs) - 1) : LatOf(cs[k + 1][1]) <= LatOf(cs[k][1])

\* Three clusters: the seeds of the first two at one latitude, the lower
\* index first, the seed of the first not being index 0, and the third seed
\* further south.
C21_Witness ==
  /\ pc = "merge"
  /\ Len(greedy) = 3
  /\ LatOf(greedy[1][1]) = LatOf(greedy[2][1])
  /\ 0 < greedy[1][1]
  /\ greedy[1][1] < greedy[2][1]
  /\ LatOf(greedy[3][1]) < LatOf(greedy[2][1])

\* The indices that were unassigned and within the radius of the seed of the
\* k-th cluster of cs when it was opened, and that the cluster did not take.
LeftOut(cs, k) ==
  {u \in (0..(Len(pois) - 1)) \ (TakenBefore(cs, k) \cup Range(cs[k])) :
     IndexDistance(cs[k][1], u) <= 1000 * mergedConfig.clusterRadiusMeters}

\* C22: in every greedy cluster the members after the seed stand in
\* non-decreasing order of distance from the seed, and when the cluster was
\* cut off at maxPoisPerZone every unassigned candidate within the radius
\* that was left out is at least as far from the seed as every one taken.
C22_NearestFirst ==
  pc \in {"cluster", "merge"} =>
    LET cs == GreedySoFar
    IN \A k \in 1..Len(cs) :
         /\ \A m \in 2..(Len(cs[k]) - 1) :
              IndexDistance(cs[k][1], cs[k][m])
                <= IndexDistance(cs[k][1], cs[k][m + 1])
         /\ Len(cs[k]) >= mergedConfig.maxPoisPerZone =>
              \A u \in LeftOut(cs, k) : \A m \in 2..Len(cs[k]) :
                IndexDistance(cs[k][1], cs[k][m]) <= IndexDistance(cs[k][1], u)

\* A cluster cut off at two members left out a candidate within the radius
\* that is further from the seed than the member taken, although the scan
\* met the one left out first.
C22_Witness ==
  /\ pc = "merge"
  /\ mergedConfig.maxPoisPerZone = 2
  /\ \E k \in 1..Len(greedy) :
       /\ Len(greedy[k]) = 2
       /\ \E u \in LeftOut(greedy, k) :
            /\ IndexDistance(greedy[k][1], greedy[k][2])
                 < IndexDistance(greedy[k][1], u)
            /\ \E a, b \in 1..Len(sortedIndices) :
                 /\ a < b
                 /\ sortedIndices[a] = u
                 /\ sortedIndices[b] = greedy[k][2]

\* C23: a greedy cluster stops growing only when it has maxPoisPerZone
\* members or no unassigned point within the radius is left; so of two
\* greedy clusters A, created first, and B, if A has fewer than
\* maxPoisPerZone members every member of B is further than the radius from
\* the seed of A.
C23_GreedyMaximality ==
  pc \in {"cluster", "merge"} =>
    LET cs == GreedySoFar
    IN /\ \A k \in 1..Len(cs) :
            Len(cs[k]) >= mergedConfig.maxPoisPerZone \/ LeftOut(cs, k) = {}
       /\ \A a, b \in 1..Len(cs) :
            (a < b /\ Len(cs[a]) < mergedConfig.maxPoisPerZone) =>
              \A m \in 1..Len(cs[b]) :
                IndexDistance(cs[a][1], cs[b][m])
                  > 1000 * mergedConfig.clusterRadiusMeters

\* A cluster of two, below the maximum, is followed by a cluster whose seed
\* is within the radius of its second member but not of its seed.
C23_Witness ==
  /\ pc = "merge"
  /\ Len(greedy) = 2
  /\ Len(greedy[1]) = 2
  /\ Len(greedy[1]) < mergedConfig.maxPoisPerZone
  /\ IndexDistance(greedy[1][2], greedy[2][1])
       <= 1000 * mergedConfig.clusterRadiusMeters
  /\ IndexDistance(greedy[1][1], greedy[2][1])
       > 1000 * mergedConfig.clusterRadiusMeters

-----------------------------------------------------------------------------
(* Properties of the zones' bounds and of the rebalancer applied again *)

\* The longitude of the point at index a.
LngOf(a) == Poi(pois, a).lng

\* C24: for every zone planZones returns, bounds.north and bounds.south are
\* the greatest and the least latitude, bounds.east and bounds.west the
\* greatest and the least longitude of the points at its poiIndices; so
\* every member lies inside the bounds, north >= south, east >= west, and a
\* zone of one point has north = south and east = west.
C24_BoundsTight ==
  pc \in {"done", "used"} =>
    \A z \in 1..Len(zones) :
      LET b == zones[z].bounds
          members == Range(zones[z].poiIndices)
      IN /\ \E a \in members : LatOf(a) = b.north
         /\ \E a \in members : LatOf(a) = b.south
         /\ \E a \in members : LngOf(a) = b.east
         /\ \E a \in members : LngOf(a) = b.west
         /\ \A a \in members : /\ b.south <= LatOf(a) /\ LatOf(a) <= b.north
                                /\ b.west <= LngOf(a) /\ LngOf(a) <= b.east
         /\ b.north >= b.south
         /\ b.east >= b.west
         /\ Len(zones[z].poiIndices) = 1 =>
              (b.north = b.south /\ b.east = b.west)

\* A zone of one point next to a zone of two points that differ in latitude
\* and in longitude.
C24_Witness ==
  /\ pc = "done"
  /\ Len(zones) = 2
  /\ \E y, z \in 1..Len(zones) :
       /\ Len(zones[y].poiIndices) = 1
       /\ Len(zones[z].poiIndices) = 2
       /\ zones[z].bounds.north > zones[z].bounds.south
       /\ zones[z].bounds.east > zones[z].bounds.west

\* C25: the rebalancer applied to its own result returns the same list, with
\* the same clusters in the same order and the same member order; and a list
\* in which every cluster has at least minPoisPerZone members, or which has
\* at most one cluster, is returned with its clusters unchanged.
C25_RebalancerIdempotent ==
  /\ again # <<>> => again[1] = workingClusters
  /\ (/\ pc \in {"build", "done", "used"}
      /\ \/ Len(greedy) <= 1
         \/ \A k \in 1..Len(greedy) :
              Len(greedy[k]) >= mergedConfig.minPoisPerZone)
       => workingClusters = greedy

\* The rebalancer was applied again to a list it had merged into two
\* clusters, one of them still below the minimum.
C25_Witness ==
  /\ again # <<>>
  /\ merges >= 1
  /\ Len(workingClusters) = 2
  /\ \E k \in 1..Len(workingClusters) :
       Len(workingClusters[k]) < mergedConfig.minPoisPerZone

-----------------------------------------------------------------------------
(* Properties of getAccessToken *)

\* The cache holds an entry whose recorded expiry is more than 300 s away.
CacheFresh ==
  /\ cachedAccessToken # <<>>
  /\ clock + 300 < cachedAccessToken[1].expiresAt

\* Caller c enters getAccessToken in this step.
Enters(c) ==
  /\ tokenCalls[c].pc \in {"idle", "returned", "threw"}
  /\ tokenCalls'[c] # tokenCalls[c]

\* C26: a call of getAccessToken returns the cached token, without a new
\* exchange, only while the time plus 300 s is before the recorded expiry,
\* which is never later than 1500 s after the token was fetched; otherwise
\* it throws when the credentials are missing or goes on to an exchange of
\* its own, and returns only the token of that exchange; a request is sent
\* only by a call that found no valid token; and a call that throws leaves
\* the cached entry as it was.
C26_TokenCache ==
  [][\A c \in Callers :
       /\ (Enters(c) /\ tokenCalls'[c].fromCache) =>
            /\ CacheFresh
            /\ tokenCalls'[c].pc = "returned"
            /\ tokenCalls'[c].token = cachedAccessToken[1].token
            /\ clock <= fetchedAt[cachedAccessToken[1].token] + 1500
            /\ exchanges' = exchanges
            /\ cachedAccessToken' = cachedAccessToken
       /\ (Enters(c) /\ CacheFresh) => tokenCalls'[c].fromCache
       /\ (Enters(c) /\ ~CacheFresh /\ credentials) =>
            (tokenCalls'[c].pc = "import" /\ exchanges' = exchanges)
       /\ (Enters(c) /\ ~CacheFresh /\ ~credentials) =>
            tokenCalls'[c].pc = "threw"
       /\ (tokenCalls'[c].pc = "exchange" /\ tokenCalls[c].pc # "exchange") =>
            /\ tokenCalls[c].pc = "sign"
            /\ ~tokenCalls[c].fromCache
            /\ exchanges' = exchanges + 1
       /\ (tokenCalls'[c].pc = "returned" /\ tokenCalls[c].pc # "returned"
             /\ ~tokenCalls'[c].fromCache) =>
            /\ tokenCalls[c].pc = "exchange"
            /\ cachedAccessToken' =
                 <<[token |-> tokenCalls[c].token,
                    expiresAt |-> tokenCalls[c].now + 1800]>>
       /\ (tokenCalls'[c].pc = "threw" /\ tokenCalls'[c] # tokenCalls[c]) =>
            cachedAccessToken' = cachedAccessToken
     ]_vars

\* One caller got the cached token 1200 s after it had arrived; 300 s later
\* the other caller found it stale and has started the next exchange.
C26_Witness ==
  \E c, d \in Callers :
    /\ tokenCalls[c].pc = "returned"
    /\ tokenCalls[c].fromCache
    /\ tokenCalls[c].now = fetchedAt[tokenCalls[c].token] + 1200
    /\ tokenCalls[d].pc = "exchange"
    /\ tokenCalls[d].token = tokenCalls[c].token + 1
    /\ tokenCalls[d].now = tokenCalls[c].now + 300
    /\ cachedAccessToken # <<>>

-----------------------------------------------------------------------------
(* Properties of loadMapKit *)

\* Component c calls loadMapKit in this step.
CallsLoadMapKit(c) ==
  /\ mounts[c].pc = "unmounted"
  /\ mounts'[c].pc = "waiting"

\* C27: a call of loadMapKit that finds a load pending or fulfilled gets
\* that load's promise and starts nothing; a call that finds none starts one;
\* so at most one load is in flight, at most one is ever fulfilled, every
\* load fetches the token at most once and mapkit.init has run once per
\* fulfilled load; the cached promise is never a rejected one, and it is
\* cleared only in the step in which its load fails.
C27_SingleFlight ==
  /\ [](/\ Cardinality(InFlight) <= 1
        /\ Cardinality({k \in 1..MaxLoads : loads[k] = "fulfilled"}) <= 1
        /\ mapkitInits = Cardinality({k \in 1..MaxLoads : loads[k] = "fulfilled"})
        /\ tokenFetches <= Cardinality(Started)
        /\ mapkitLoadPromise # <<>> =>
             loads[mapkitLoadPromise[1]] \notin {"none", "rejected"})
  /\ [][/\ \A c \in Components :
             /\ (CallsLoadMapKit(c) /\ mapkitLoadPromise # <<>>) =>
                  /\ mounts'[c].awaits = mapkitLoadPromise[1]
                  /\ loads' = loads
                  /\ tokenFetches' = tokenFetches
                  /\ mapkitLoadPromise' = mapkitLoadPromise
             /\ (CallsLoadMapKit(c) /\ mapkitLoadPromise = <<>>) =>
                  /\ loads[mounts'[c].awaits] = "none"
                  /\ loads'[mounts'[c].awaits] \in {"script", "poll", "fetch"}
                  /\ mapkitLoadPromise' = <<mounts'[c].awaits>>
        /\ (mapkitLoadPromise # <<>> /\ mapkitLoadPromise' = <<>>) =>
             /\ loads[mapkitLoadPromise[1]] # "rejected"
             /\ loads'[mapkitLoadPromise[1]] = "rejected"
       ]_vars

\* A first load failed at its token fetch; both components then awaited the
\* second load, which one of them started, and both have their map after a
\* single mapkit.init and one token fetch per load.
C27_Witness ==
  /\ loads[1] = "rejected"
  /\ loads[2] = "fulfilled"
  /\ \A c \in Components : mounts[c] = [pc |-> "ready", awaits |-> 2]
  /\ mapkitInits = 1
  /\ tokenFetches = 2
  /\ mapkitLoadPromise = <<2>>

-----------------------------------------------------------------------------
(* Properties of GameTimer *)

\* C28: a run of updateTimer calls onExpire, once, exactly when the deadline
\* startedAt + timeLimitMinutes minutes has been reached and onExpire is
\* given; nothing else calls it; so after the deadline the update on mount
\* and every tick call it again; and timeLeft and the minutes and seconds
\* shown are never negative.
C28_ExpireOnZero ==
  /\ [](timeLeft >= 0 /\ Minutes(timeLeft) >= 0 /\ Seconds(timeLeft) >= 0)
  /\ [][/\ (updates' # updates /\ timerProps.onExpire
              /\ dateNow >= EndTime(timerProps)) =>
             (expireCalls' = expireCalls + 1 /\ timeLeft' = 0)
        /\ (updates' # updates /\ dateNow < EndTime(timerProps)) =>
             (expireCalls' = expireCalls /\ timeLeft' > 0)
        /\ (updates' # updates /\ ~timerProps.onExpire) =>
             expireCalls' = expireCalls
        /\ updates' = updates => expireCalls' = expireCalls
       ]_vars

\* The host's timer was mounted before the deadline and has called onExpire
\* three times since, a second and more after the deadline.
C28_Witness ==
  /\ timerProps # <<>>
  /\ timerProps.onExpire
  /\ interval # <<>>
  /\ expireCalls = 3
  /\ updates > expireCalls
  /\ dateNow >= EndTime(timerProps) + 1000

-----------------------------------------------------------------------------
(* Properties of the race POI effect *)

\* The places on the map of the annotation with the serial number of a.
OnMap(a) == {i \in DOMAIN mapAnnotations : mapAnnotations[i].serial = a.serial}

\* C29: while the map is ready and the effect has run for the current pois,
\* the registry's keys are exactly the ids of the POIs, every entry is a
\* marker of its own id, every entry's annotation is on the map once, and
\* the map holds no other race annotation.
C29_MarkersInSync ==
  (mapReady /\ synced) =>
    /\ DOMAIN raceAnnotations = {poisProp[i].id : i \in DOMAIN poisProp}
    /\ \A id \in DOMAIN raceAnnotations :
         /\ raceAnnotations[id].id = id
         /\ Cardinality(OnMap(raceAnnotations[id])) = 1
         /\ \A i \in OnMap(raceAnnotations[id]) :
              mapAnnotations[i] = raceAnnotations[id]
    /\ Len(mapAnnotations) = Cardinality(DOMAIN raceAnnotations)

\* Markers for a and b were made; then the two were exchanged in the list:
\* each has a new marker with its new number, made after the old one was
\* taken off the map, and the map holds these two.
C29_Witness ==
  /\ mapReady
  /\ synced
  /\ poisProp = <<[id |-> "b", place |-> 2, order |-> 1],
                  [id |-> "a", place |-> 1, order |-> 2]>>
  /\ raceAnnotations["b"] = [serial |-> 3, id |-> "b", place |-> 2, glyphText |-> "1"]
  /\ raceAnnotations["a"] = [serial |-> 2, id |-> "a", place |-> 1, glyphText |-> "2"]
  /\ mapAnnotations = <<raceAnnotations["b"], raceAnnotations["a"]>>

-----------------------------------------------------------------------------
(* Properties of the long press *)

\* C30: at most one long-press timeout is pending, and the last call of
\* onLongPressPOI, if there was one, was made with the id of the race marker
\* that was then selected and had been for at least 500 ms, with no
\* deselect, unmount or re-registration of the handlers since its selection.
C30_LongPress ==
  /\ Cardinality(timers) <= 1
  /\ lastCall # <<>> =>
       /\ lastCall[1].selected # <<>>
       /\ lastCall[1].selected[1].id = lastCall[1].id
       /\ lastCall[1].at - lastCall[1].selected[1].at >= 500

====
